---- MODULE Spec2Model ----
(***************************************************************************)
(* A model of the build tooling of react-utils:                            *)
(*   - configFactory of config-ts-src/webpack/app-base.ts (the Webpack     *)
(*     config factory with its build-info and sitemap side effects);       *)
(*   - the CLI build script (bundler run, two-pass transpiler, file copy); *)
(*   - the components Modal and YouTubeVideo.                              *)
(* Both work on one filesystem model: a set of directories and a map from  *)
(* file paths to file contents. Paths are sequences of segments, file      *)
(* contents are sequences of tokens <<kind, text>>.                        *)
(***************************************************************************)
EXTENDS Integers, Sequences, FiniteSets, TLC

VARIABLES
  dirs,        \* the directories that exist (absolute paths)
  files,       \* file path |-> content, for the files that exist
  inputs,      \* which option objects callers pass to configFactory
  clock,       \* the wall clock, read by new Date()
  calls,       \* the number of configFactory invocations so far
  pending,     \* the sitemap promise callbacks scheduled and not yet run
  last,        \* what the latest configFactory invocation did (history)
  emitted,     \* the build info configFactory wrote last to .build-info (history)
  built,       \* the build that uses the latest returned config has completed
  args,        \* the command line of the build script
  pc,          \* the position of the build script
  exitCode,    \* process.exitCode
  webpackConfig, \* the Webpack config the script has loaded
  bundler,     \* the state of the bundler run
  compilation, \* the latest compilation and what its handler did (history)
  babel,       \* the state of the transpiler run
  copied,      \* the file copy has run
  modals,      \* the Modal components of the page: mounted or not, props
  bodyClasses, \* document.body.classList
  listeners,   \* the event listeners registered on window
  bodyChildren, \* the portal elements among the children of document.body
  event,       \* the latest event dispatched and what it did (history)
  video        \* the latest YouTubeVideo rendered (history)

fsVars == <<dirs, files>>

factoryVars == <<inputs, clock, calls, pending, last, emitted, built>>

cliVars == <<args, pc, exitCode, webpackConfig, bundler, compilation, babel,
             copied>>

uiVars == <<modals, bodyClasses, listeners, bodyChildren, event, video>>

vars == <<fsVars, factoryVars, cliVars, uiVars>>

----------------------------------------------------------------------------
(* Bounds *)

MaxCalls == 2

----------------------------------------------------------------------------
(* JavaScript values *)

\* The value of an option that was not given.
Undefined == "<undefined>"

\* A JavaScript value of the kinds the build info can take: an object is
\* the sequence of its own properties <<name, type, text>> in insertion order
\* (type "s": string, "b": boolean).
JsUndefined == [kind |-> "undefined", props |-> <<>>]
JsTrue == [kind |-> "true", props |-> <<>>]
JsNull == [kind |-> "null", props |-> <<>>]
JsObject(props) == [kind |-> "object", props |-> props]

Truthy(v) == v.kind \in {"true", "object"}

\* obj[name], for a property the object has.
Get(props, name) ==
  LET i == CHOOSE j \in 1..Len(props) : props[j][1] = name
  IN <<props[i][2], props[i][3]>>

Has(props, name) == \E j \in 1..Len(props) : props[j][1] = name

\* { ...props, [p[1]]: p } : an own property keeps its place, a new one is
\* appended.
SetProp(props, p) ==
  IF Has(props, p[1])
  THEN [j \in 1..Len(props) |-> IF props[j][1] = p[1] THEN p ELSE props[j]]
  ELSE Append(props, p)

RECURSIVE Spread(_, _)
\* { ...a, ...b }
Spread(a, b) ==
  IF b = <<>> THEN a ELSE Spread(SetProp(a, Head(b)), Tail(b))

----------------------------------------------------------------------------
(* JSON.stringify and JSON.parse, on token sequences *)

Punct(c) == <<"punct", c>>

JsonLiteral(p) == IF p[2] = "s" THEN <<"str", p[3]>> ELSE <<"lit", p[3]>>

RECURSIVE JsonMembers(_)
JsonMembers(props) ==
  IF props = <<>> THEN <<>>
  ELSE LET p == Head(props)
           m == << <<"str", p[1]>>, Punct(":"), JsonLiteral(p) >>
       IN IF Len(props) = 1 THEN m
          ELSE m \o <<Punct(",")>> \o JsonMembers(Tail(props))

JSONstringify(v) ==
  IF v.kind = "object"
  THEN <<Punct("{")>> \o JsonMembers(v.props) \o <<Punct("}")>>
  ELSE IF v.kind = "null" THEN << <<"lit", "null">> >>
  ELSE << <<"lit", v.kind>> >>

IsJsonValue(t) ==
  \/ t[1] = "str"
  \/ t[1] = "lit" /\ t[2] \in {"true", "false"}

IsJsonMembers(body) ==
  \/ body = <<>>
  \/ /\ Len(body) % 4 = 3
     /\ \A i \in 1..Len(body) :
          CASE i % 4 = 1 -> body[i][1] = "str"
            [] i % 4 = 2 -> body[i] = Punct(":")
            [] i % 4 = 3 -> IsJsonValue(body[i])
            [] OTHER     -> body[i] = Punct(",")

ParseMembers(body) ==
  [i \in 1..((Len(body) + 1) \div 4) |->
     << body[4 * i - 3][2],
        IF body[4 * i - 1][1] = "str" THEN "s" ELSE "b",
        body[4 * i - 1][2] >>]

\* JSON.parse(text): ok is FALSE when it throws a SyntaxError.
JSONparse(text) ==
  IF text = << <<"lit", "null">> >> THEN [ok |-> TRUE, value |-> JsNull]
  ELSE IF text = << <<"lit", "true">> >> THEN [ok |-> TRUE, value |-> JsTrue]
  ELSE IF /\ Len(text) >= 2
          /\ text[1] = Punct("{")
          /\ text[Len(text)] = Punct("}")
          /\ IsJsonMembers(SubSeq(text, 2, Len(text) - 1))
  THEN [ok |-> TRUE,
        value |-> JsObject(ParseMembers(SubSeq(text, 2, Len(text) - 1)))]
  ELSE [ok |-> FALSE, value |-> JsUndefined]

----------------------------------------------------------------------------
(* Paths and the filesystem *)

\* The segments of a path written as a string.
PathSegs(s) ==
  CASE s = "build/web-public" -> <<"build", "web-public">>
    [] s = "" -> <<>>
    [] OTHER -> <<s>>

\* path.resolve(base, rel) for an absolute base and a relative rel.
PathResolve(base, rel) == base \o PathSegs(rel)

Parent(p) == SubSeq(p, 1, Len(p) - 1)

Prefixes(p) == {SubSeq(p, 1, n) : n \in 0..Len(p)}

FileSystem(d, f) == [dirs |-> d, files |-> f]

existsSync(fs, p) == p \in fs.dirs \/ p \in DOMAIN fs.files

\* fs.mkdirSync(p, { recursive: true })
mkdirRecursive(fs, p) == [fs EXCEPT !.dirs = @ \cup Prefixes(p)]

\* fs.mkdirSync(p) throws when the parent directory does not exist.
mkdirThrows(fs, p) == Parent(p) \notin fs.dirs \/ existsSync(fs, p)

mkdirPlain(fs, p) == [fs EXCEPT !.dirs = @ \cup {p}]

\* fs.readFileSync(p) throws when p is not a file.
readThrows(fs, p) == p \notin DOMAIN fs.files

\* fs.writeFileSync(p, content) throws when the directory does not exist or
\* p is a directory.
writeThrows(fs, p) == Parent(p) \notin fs.dirs \/ p \in fs.dirs

writeFile(fs, p, content) ==
  [fs EXCEPT !.files =
     [q \in (DOMAIN @) \cup {p} |-> IF q = p THEN content ELSE @[q]]]

----------------------------------------------------------------------------
(* configFactory: inputs *)

\* ops.context: an absolute directory (Webpack requires an absolute context).
Context == <<"app">>

\* forge.random.getBytesSync(32)
Keys == {"k1", "k2"}

\* new Date().toISOString()
ISOString(t) == "T" \o ToString(t)

\* A build info object as a caller passes it in keepBuildInfo, in the field
\* order of BuildInfoT.
GivenBuildInfo ==
  JsObject(<< <<"key", "s", "given">>, <<"publicPath", "s", "/given">>,
              <<"timestamp", "s", "T-given">>,
              <<"useServiceWorker", "b", "true">> >>)

\* The build info a build made before the model starts has written.
PriorBuildInfo ==
  JsObject(<< <<"key", "s", "k0">>, <<"publicPath", "s", "/old">>,
              <<"useServiceWorker", "b", "false">>,
              <<"timestamp", "s", "T-prior">> >>)

Garbage == << <<"raw", "not json">> >>

\* process.cwd() of the build script
Cwd == <<"proj">>

\* The directories that hold the sitemap modules of the model.
Contexts == {Context, Cwd}

\* require(sitemapUrl): the modules that can be loaded. value "list" is an
\* array of URLs, "function" a factory returning one, "object" a value
\* without forEach.
Require(url) ==
  CASE url \in {c \o <<"sitemap.json">> : c \in Contexts} ->
         [found |-> TRUE, value |-> "list", items |-> <<"/", "/about">>]
    [] url \in {c \o <<"sitemap.js">> : c \in Contexts} ->
         [found |-> TRUE, value |-> "function", items |-> <<"/home">>]
    [] url \in {c \o <<"nolist.json">> : c \in Contexts} ->
         [found |-> TRUE, value |-> "object", items |-> <<>>]
    [] OTHER -> [found |-> FALSE, value |-> "none", items |-> <<>>]

SitemapOptions ==
  {Undefined, "sitemap.json", "sitemap.js", "nolist.json", "missing.json"}

\* new SM.SitemapStream() fed with the items, as streamToPromise resolves it.
SitemapXml(items) ==
  << <<"tag", "urlset">> >> \o [i \in 1..Len(items) |-> <<"url", items[i]>>]
    \o << <<"tag", "/urlset">> >>

\* The option objects of the model. workbox and publicPath, which only set
\* fields of a generated build info, vary together.
FactoryOps(keeps, sitemaps, outputPaths) ==
  { [ babelEnv |-> "production",
      babelLoaderOptions |-> JsUndefined,
      context |-> Context,
      cssLocalIdent |-> Undefined,
      dontEmitBuildInfo |-> dontEmit,
      dontUseProgressPlugin |-> FALSE,
      entry |-> [isArray |-> FALSE, str |-> "./src"],
      keepBuildInfo |-> keep,
      mode |-> "production",
      outputPath |-> out,
      publicPath |-> IF sw THEN "/cdn" ELSE Undefined,
      sitemap |-> sitemap,
      typescript |-> FALSE,
      workbox |-> IF sw THEN JsTrue ELSE JsUndefined ] :
    dontEmit \in BOOLEAN, keep \in keeps, out \in outputPaths,
    sw \in BOOLEAN, sitemap \in sitemaps }

\* The calls that exercise the build info.
BuildInfoOps ==
  FactoryOps({JsUndefined, JsTrue, GivenBuildInfo},
             {Undefined, "sitemap.json", "missing.json"}, {Undefined})

\* The calls that exercise the sitemap.
SitemapOps ==
  { ops \in FactoryOps({JsUndefined}, SitemapOptions, {Undefined, "out"}) :
      ops.workbox = JsUndefined }

\* The workbox options callers pass: none, the flag, an object that names
\* its own worker source and destination, an object that leaves both alone.
WorkboxOptions ==
  { JsUndefined, JsTrue,
    JsObject(<< <<"swDest", "s", "custom-sw.js">>,
                <<"swSrc", "s", "src/sw.js">>,
                <<"exclude", "s", "*.map">> >>),
    JsObject(<< <<"maximumFileSizeToCacheInBytes", "s", "4194304">> >>) }

\* ops.entry: a string, or an array of strings (isArray).
EntryOptions ==
  { [isArray |-> FALSE, str |-> "./src"],
    [isArray |-> TRUE, items |-> <<"./src/b", "./src/a">>],
    [isArray |-> TRUE, items |-> <<"./src/a", "./src/b", "./src/a">>] }

\* ops.babelLoaderOptions: not given, or an object that sets a factory option
\* (envName) and an option the factory does not set (cacheDirectory).
BabelLoaderOptions ==
  { JsUndefined,
    JsObject(<< <<"cacheDirectory", "b", "true">>,
                <<"envName", "s", "test">> >>) }

\* ops.cssLocalIdent, ops.outputPath and ops.publicPath: all three omitted
\* (in a call that asks for a sitemap), given, or given as the empty string.
DefaultedOptions ==
  { [cssLocalIdent |-> Undefined, outputPath |-> Undefined,
     publicPath |-> Undefined, sitemap |-> "sitemap.json"],
    [cssLocalIdent |-> "[path][name]_[local]", outputPath |-> "dist",
     publicPath |-> "/cdn", sitemap |-> Undefined],
    [cssLocalIdent |-> "", outputPath |-> "", publicPath |-> "",
     sitemap |-> ""] }

\* The calls that exercise the options the returned config is made from.
OptionsOps ==
  { [ babelEnv |-> "production",
      babelLoaderOptions |-> loaderOptions,
      context |-> Context,
      cssLocalIdent |-> d.cssLocalIdent,
      dontEmitBuildInfo |-> FALSE,
      dontUseProgressPlugin |-> FALSE,
      entry |-> entry,
      keepBuildInfo |-> JsUndefined,
      mode |-> "production",
      outputPath |-> d.outputPath,
      publicPath |-> d.publicPath,
      sitemap |-> d.sitemap,
      typescript |-> FALSE,
      workbox |-> workbox ] :
    loaderOptions \in BabelLoaderOptions, d \in DefaultedOptions,
    entry \in EntryOptions, workbox \in WorkboxOptions }

----------------------------------------------------------------------------
(* configFactory *)

\* The object o, had the defaults been set on the caller's object itself.
cloneNone(ops) == [fresh |-> FALSE, value |-> ops]

\* clone(ops): a new object with the properties of ops, so that what is set
\* on it later is not set on ops.
clone(ops) == [fresh |-> TRUE, value |-> ops]

\* The defaults filled in wherever the caller's value is falsy.
OptionDefaultsIfFalsy(ops) ==
  [ops EXCEPT
     !.babelLoaderOptions = IF ~Truthy(@) THEN JsObject(<<>>) ELSE @,
     !.cssLocalIdent = IF @ \in {Undefined, ""} THEN "[hash:base64:6]" ELSE @,
     !.outputPath = IF @ \in {Undefined, ""} THEN "build/web-public" ELSE @,
     !.publicPath = IF @ \in {Undefined, ""} THEN "" ELSE @]

\* defaults(clone(ops), {...}): a default replaces an undefined value only.
OptionDefaults(ops) ==
  [ops EXCEPT
     !.babelLoaderOptions = IF @ = JsUndefined THEN JsObject(<<>>) ELSE @,
     !.cssLocalIdent = IF @ = Undefined THEN "[hash:base64:6]" ELSE @,
     !.outputPath = IF @ = Undefined THEN "build/web-public" ELSE @,
     !.publicPath = IF @ = Undefined THEN "" ELSE @]

NoConfig == [none |-> TRUE]

\* The callback of SM.streamToPromise(sm).then(...): what it leaves of the
\* filesystem fs0 (nothing is written when it throws).
SitemapCallback(cb, fs0) ==
  LET missing == ~existsSync(fs0, cb.outUrl)
      mkFails == missing /\ mkdirThrows(fs0, cb.outUrl)
      fs1 == IF missing /\ ~mkFails THEN mkdirPlain(fs0, cb.outUrl) ELSE fs0
      target == cb.outUrl \o <<"sitemap.xml">>
  IN IF mkFails \/ writeThrows(fs1, target) THEN fs0
     ELSE writeFile(fs1, target, cb.xml)

\* The sitemap step, had the write been awaited inside configFactory.
SitemapStepAwaited(o, fs0) ==
  LET wanted == o.sitemap # Undefined /\ o.sitemap # ""
      source == Require(PathResolve(o.context, o.sitemap))
      isList == source.value \in {"list", "function"}
      outUrl == PathResolve(o.context, o.outputPath)
      xml == SitemapXml(source.items)
  IN [ throws |-> wanted /\ (~source.found \/ ~isList),
       error |-> IF ~source.found THEN "MODULE_NOT_FOUND" ELSE "TypeError",
       scheduled |-> FALSE,
       outUrl |-> outUrl,
       xml |-> xml,
       fs |-> IF wanted /\ source.found /\ isList
              THEN SitemapCallback([id |-> 0, outUrl |-> outUrl, xml |-> xml], fs0)
              ELSE fs0 ]

\* The sitemap step, had a source without forEach been skipped instead of
\* used.
SitemapStepSkipsNoList(o, fs0) ==
  LET wanted == o.sitemap # Undefined /\ o.sitemap # ""
      source == Require(PathResolve(o.context, o.sitemap))
  IN [ throws |-> wanted /\ ~source.found,
       error |-> "MODULE_NOT_FOUND",
       scheduled |-> wanted /\ source.found,
       outUrl |-> PathResolve(o.context, o.outputPath),
       xml |-> SitemapXml(source.items),
       fs |-> fs0 ]

\* The sitemap step on the filesystem fs0: the source is loaded and streamed
\* synchronously, the write is left to a promise callback, so that the step
\* itself leaves the filesystem as it is.
SitemapStep(o, fs0) ==
  LET wanted == o.sitemap # Undefined /\ o.sitemap # ""
      source == Require(PathResolve(o.context, o.sitemap))
      isList == source.value \in {"list", "function"}
  IN [ throws |-> wanted /\ (~source.found \/ ~isList),
       error |-> IF ~source.found THEN "MODULE_NOT_FOUND" ELSE "TypeError",
       scheduled |-> wanted /\ source.found /\ isList,
       outUrl |-> PathResolve(o.context, o.outputPath),
       xml |-> SitemapXml(source.items),
       fs |-> fs0 ]

\* The disk looked at for any truthy ops.keepBuildInfo.
TryLoadAnyTruthy(o) == TRUE

\* A truthy ops.keepBuildInfo asks to look for the build info on the disk.
TryLoad(o) == o.keepBuildInfo = JsTrue

\* A build info generated at every call.
GeneratesAlways(kept) == TRUE

\* A build info is generated when none was kept.
Generates(kept) == ~Truthy(kept)

\* The build info written whatever ops.dontEmitBuildInfo is.
EmitsAlways(o) == TRUE

\* The build info is written to the disk.
EmitsBuildInfo(o) == ~o.dontEmitBuildInfo

\* The object generated when no build info was given or loaded.
FreshBuildInfo(o, rnd, now) ==
  JsObject(<< <<"key", "s", rnd>>,
              <<"publicPath", "s", o.publicPath>>,
              <<"useServiceWorker", "b",
                IF Truthy(o.workbox) THEN "true" ELSE "false">>,
              <<"timestamp", "s", ISOString(now)>> >>)

\* The InjectManifest options, had swDest been a default like swSrc.
InjectManifestOptionsDestFirst(workbox) ==
  Spread(<< <<"swSrc", "s", "config/workbox/default.js">>,
            <<"swDest", "s", "__service-worker.js">> >>,
         workbox.props)

\* The options of the InjectManifest plugin for the workbox object: the
\* default swSrc comes first, the caller's keys over it, swDest last.
InjectManifestOptions(workbox) ==
  SetProp(Spread(<< <<"swSrc", "s", "config/workbox/default.js">> >>,
                 workbox.props),
          <<"swDest", "s", "__service-worker.js">>)

\* if (!isObject(o.workbox)) o.workbox = {}, for a truthy o.workbox.
WorkboxNormalised(o) ==
  [o EXCEPT !.workbox = IF Truthy(@) /\ @.kind # "object"
                        THEN JsObject(<<>>) ELSE @]

\* The plugins of the returned config.
Plugins(ops, o, buildInfo) ==
  << [name |-> "DefinePlugin", define |-> JSONstringify(buildInfo),
      options |-> <<>>] >>
  \o (IF ops.dontUseProgressPlugin THEN <<>>
      ELSE << [name |-> "ProgressPlugin", define |-> <<>>, options |-> <<>>] >>)
  \o (IF Truthy(o.workbox)
      THEN << [name |-> "InjectManifest", define |-> <<>>,
               options |->
                 InjectManifestOptions(WorkboxNormalised(o).workbox)] >>
      ELSE <<>>)

\* The entry list, had the caller's entry points come first.
EntryCallerFirst(entry) ==
  (IF entry.isArray THEN entry.items ELSE <<entry.str>>)
  \o <<"core-js/stable", "regenerator-runtime/runtime",
       "nodelist-foreach-polyfill">>

\* The entry list of the returned config: the polyfills, then o.entry, which
\* is wrapped into an array when it is not one.
Entry(entry) ==
  <<"core-js/stable", "regenerator-runtime/runtime",
    "nodelist-foreach-polyfill">>
  \o (IF entry.isArray THEN entry.items ELSE <<entry.str>>)

\* The config object returned.
Config(ops, o, buildInfo) ==
  [ context |-> o.context,
    entry |-> Entry(o.entry),
    mode |-> o.mode,
    output |-> [ chunkFilename |-> "[contenthash].js",
                 filename |-> "[contenthash].js",
                 path |-> PathResolve(o.context, o.outputPath),
                 publicPath |-> o.publicPath \o "/" ],
    plugins |-> Plugins(ops, o, buildInfo),
    babelLoader |->
      [ test |-> IF ops.typescript THEN "(j|t)sx?|svg" ELSE "jsx?|svg",
        options |->
          Spread(<< <<"babelrc", "b", "false">>,
                    <<"configFile", "b", "false">>,
                    <<"envName", "s", o.babelEnv>>,
                    <<"presets", "s", "@dr.pogodin/react-utils/config/babel/webpack">> >>,
                 o.babelLoaderOptions.props) ],
    cssLocalIdentName |-> o.cssLocalIdent ]

\* configFactory(ops) on the filesystem fs0, with rnd the random bytes drawn
\* and now the clock: what it returns or throws, the caller's ops as the call
\* leaves it, the filesystem it leaves, the filesystem calls it made, and the
\* promise callback it scheduled.
configFactory(ops, fs0, rnd, now) ==
  LET copy == clone(ops)
      o == OptionDefaults(copy.value)
      sm == SitemapStep(o, fs0)
      buildInfoUrl == PathResolve(o.context, ".build-info")
      tryLoad == Truthy(o.keepBuildInfo) /\ TryLoad(o)
      found == tryLoad /\ existsSync(sm.fs, buildInfoUrl)
      readFails == found /\ readThrows(sm.fs, buildInfoUrl)
      parsed == IF found /\ ~readFails
                THEN JSONparse(sm.fs.files[buildInfoUrl])
                ELSE [ok |-> TRUE, value |-> JsUndefined]
      kept == IF ~Truthy(o.keepBuildInfo) THEN JsUndefined
              ELSE IF tryLoad THEN parsed.value
              ELSE o.keepBuildInfo
      generated == Generates(kept)
      buildInfo == IF generated THEN FreshBuildInfo(o, rnd, now) ELSE kept
      load == IF ~tryLoad THEN "none"
              ELSE IF ~found THEN "absent"
              ELSE IF readFails THEN "unreadable"
              ELSE IF ~parsed.ok THEN "unparsable"
              ELSE IF ~Truthy(parsed.value) THEN "falsy"
              ELSE "loaded"
      loadLog == (IF tryLoad THEN << <<"existsSync", buildInfoUrl>> >> ELSE <<>>)
                 \o (IF found THEN << <<"readFileSync", buildInfoUrl>> >> ELSE <<>>)
      emit == EmitsBuildInfo(o)
      fsDir == IF emit THEN mkdirRecursive(sm.fs, o.context) ELSE sm.fs
      writeFails == emit /\ writeThrows(fsDir, buildInfoUrl)
      fs1 == IF emit
             THEN writeFile(fsDir, buildInfoUrl, JSONstringify(buildInfo))
             ELSE sm.fs
      emitLog == IF emit
                 THEN << <<"mkdirSync", o.context>>,
                         <<"writeFileSync", buildInfoUrl>> >>
                 ELSE <<>>
      failed(error, fs, ld, log, scheduled) ==
        [ threw |-> TRUE, error |-> error, config |-> NoConfig, fs |-> fs,
          opsAfter |-> IF copy.fresh THEN ops ELSE o,
          load |-> ld, log |-> log, scheduled |-> scheduled,
          outUrl |-> sm.outUrl, xml |-> sm.xml, buildInfo |-> JsUndefined,
          generated |-> FALSE ]
  IN IF sm.throws THEN failed(sm.error, sm.fs, "none", <<>>, FALSE)
     ELSE IF readFails
     THEN failed("EISDIR read", sm.fs, load, loadLog, sm.scheduled)
     ELSE IF ~parsed.ok
     THEN failed("SyntaxError", sm.fs, load, loadLog, sm.scheduled)
     ELSE IF writeFails
     THEN failed("EISDIR open", fsDir, load, loadLog \o emitLog, sm.scheduled)
     ELSE [ threw |-> FALSE, error |-> "", config |-> Config(ops, o, buildInfo),
            opsAfter |-> IF copy.fresh THEN ops ELSE WorkboxNormalised(o),
            fs |-> fs1, load |-> load, log |-> loadLog \o emitLog,
            scheduled |-> sm.scheduled, outUrl |-> sm.outUrl, xml |-> sm.xml,
            buildInfo |-> buildInfo, generated |-> generated ]

----------------------------------------------------------------------------
(* The configFactory specification *)

\* The build script is not part of this specification.
NoArgs == [none |-> TRUE]

NotMounted == [mounted |-> FALSE]

NoEvent == [type |-> "none"]

NoVideo == [n |-> 0]

\* A page without components.
UiIdle ==
  /\ modals = <<>>
  /\ bodyClasses = {}
  /\ listeners = {}
  /\ bodyChildren = {}
  /\ event = NoEvent
  /\ video = NoVideo

NoCompilation == [n |-> 0]

BuildInfoUrl == PathResolve(Context, ".build-info")

NoCall == [n |-> 0]

\* What .build-info can be before the first call: absent, the file of an
\* earlier build, a file that is not JSON, the JSON null, a directory.
InitFileSystems ==
  { FileSystem({<<>>}, <<>>),
    FileSystem({<<>>, Context}, <<>>),
    FileSystem({<<>>, Context, Context \o <<"build">>}, <<>>),
    FileSystem({<<>>, Context, BuildInfoUrl}, <<>>) }
  \cup
  { FileSystem(d, [p \in {BuildInfoUrl} |-> c]) :
      d \in { {<<>>, Context}, {<<>>, Context, Context \o <<"build">>} },
      c \in { JSONstringify(PriorBuildInfo), Garbage, JSONstringify(JsNull) } }

InitWith(ops) ==
  /\ \E fs \in InitFileSystems : dirs = fs.dirs /\ files = fs.files
  /\ inputs = ops
  /\ args = NoArgs
  /\ pc = "none"
  /\ exitCode = 0
  /\ webpackConfig = NoConfig
  /\ bundler = "idle"
  /\ compilation = NoCompilation
  /\ babel = [pass |-> "none", running |-> FALSE, failed |-> {},
              children |-> {}]
  /\ copied = FALSE
  /\ clock = 1
  /\ calls = 0
  /\ pending = {}
  /\ last = NoCall
  /\ emitted = JsUndefined
  /\ built = FALSE
  /\ UiIdle

\* The option objects callers pass.
Inputs(which) ==
  CASE which = "build info" -> BuildInfoOps
    [] which = "sitemap" -> SitemapOps
    [] which = "options" -> OptionsOps

Init == InitWith("build info")

InitSitemap == InitWith("sitemap")

InitOptions == InitWith("options")

\* A caller invokes configFactory(ops).
CallFactory ==
  /\ calls < MaxCalls
  /\ \E ops \in Inputs(inputs), rnd \in Keys :
       LET r == configFactory(ops, FileSystem(dirs, files), rnd, clock)
       IN /\ dirs' = r.fs.dirs
          /\ files' = r.fs.files
          /\ pending' = IF r.scheduled
                        THEN pending \cup {[id |-> calls + 1, outUrl |-> r.outUrl,
                                            xml |-> r.xml]}
                        ELSE pending
          /\ last' = [ n |-> calls + 1, ops |-> ops, opsAfter |-> r.opsAfter,
                       threw |-> r.threw,
                       error |-> r.error, config |-> r.config, load |-> r.load,
                       log |-> r.log,
                       scheduled |-> r.scheduled, buildInfo |-> r.buildInfo,
                       generated |-> r.generated ]
          /\ emitted' = IF ~r.threw /\ ~ops.dontEmitBuildInfo
                        THEN r.buildInfo ELSE emitted
  /\ calls' = calls + 1
  /\ clock' = clock + 1
  /\ built' = FALSE
  /\ UNCHANGED <<uiVars, inputs, cliVars>>

\* A pending sitemap callback runs.
RunSitemapCallback ==
  \E cb \in pending :
    LET fs == SitemapCallback(cb, FileSystem(dirs, files))
    IN /\ dirs' = fs.dirs
       /\ files' = fs.files
       /\ pending' = pending \ {cb}
       /\ UNCHANGED <<uiVars, inputs, clock, calls, last, emitted, built, cliVars>>

\* The build that uses the returned config completes.
BuildCompletes ==
  /\ last # NoCall
  /\ ~last.threw
  /\ ~built
  /\ built' = TRUE
  /\ UNCHANGED <<uiVars, dirs, files, inputs, clock, calls, pending, last, emitted,
                 cliVars>>

Next == CallFactory \/ RunSitemapCallback \/ BuildCompletes

Spec == Init /\ [][Next]_vars

SpecSitemap == InitSitemap /\ [][Next]_vars

SpecOptions == InitOptions /\ [][Next]_vars

----------------------------------------------------------------------------
(* The build script: inputs *)

MaxCompilations == 2

BUILD_TYPES == [DEVELOPMENT |-> "development", PRODUCTION |-> "production"]

VALID_BUILD_TYPES == {BUILD_TYPES.DEVELOPMENT, BUILD_TYPES.PRODUCTION}

\* program.opts(): --lib, --in-dir, --out-dir, --build-type, --watch,
\* --webpack-config, --copy-files, with the defaults of the options.
CmdLineArgs ==
  [ lib : BOOLEAN,
    inDir : {"src"},
    outDir : {"build"},
    buildType : {Undefined, "development", "production", "staging"},
    watch : BOOLEAN,
    webpackConfig : {"webpack.config.js"},
    copyFiles : {Undefined, "\\.json$"} ]

\* The names of the directory entries, in the order readdirSync lists them.
EntryNames ==
  <<"assets", "data.json", "icon.svg", "index.js", "logo.json", "notes.txt",
    "old.js", "web-public", "__chunk_groups__.json", "development",
    "production", "src", "build">>

\* item.name.match(regex)
Matches(name, regex) ==
  CASE regex = "\\.json$" ->
         name \in {"data.json", "logo.json", "__chunk_groups__.json"}
    [] regex = "^notes" -> name = "notes.txt"
    [] OTHER -> FALSE

SourceFile(name) == << <<"raw", name>> >>

\* The source tree of the project.
SourceTree ==
  LET src == Cwd \o <<"src">>
  IN FileSystem(
       {<<>>, Cwd, src, src \o <<"assets">>},
       [p \in { src \o <<"index.js">>, src \o <<"icon.svg">>,
                src \o <<"data.json">>, src \o <<"assets", "logo.json">>,
                src \o <<"assets", "notes.txt">> } |-> SourceFile(p[Len(p)])])

\* What an earlier build has left in the output directories.
StaleOutput ==
  LET out == Cwd \o <<"build">>
  IN FileSystem(
       {out, out \o <<"web-public">>, out \o <<"development">>,
        out \o <<"production">>},
       [p \in { out \o <<"old.js">>,
                out \o <<"web-public", "__chunk_groups__.json">>,
                out \o <<"development", "old.js">>,
                out \o <<"production", "old.js">> } |-> << <<"raw", "stale">> >>])

\* The named chunk groups of a compilation, in the order of the object's
\* keys; an asset is an object with a name and a size.
NamedChunkGroups ==
  { << [name |-> "main",
        assets |-> << [name |-> "main.js", size |-> 10],
                      [name |-> "main.css", size |-> 2] >>],
       [name |-> "vendor",
        assets |-> << [name |-> "vendor.js", size |-> 30] >>] >>,
    << [name |-> "main",
        assets |-> << [name |-> "main.js", size |-> 12] >>] >> }

NoStats == [present |-> FALSE, hasErrors |-> FALSE, groups |-> <<>>]

\* What the bundler passes to the handler, and whether it has emitted the
\* assets into the output directory before: a compilation without errors is
\* emitted, a fatal error of a run comes without stats, one of a watch may
\* come with them.
CompilationResults(watch) ==
  { r \in [ error : BOOLEAN,
            stats : {NoStats} \cup [present : {TRUE}, hasErrors : BOOLEAN,
                                    groups : NamedChunkGroups],
            emitted : BOOLEAN ] :
      /\ ~r.error => r.stats.present
      /\ (r.error /\ r.stats.present) => watch
      /\ r.emitted => r.stats.present
      /\ (r.stats.present /\ ~r.error /\ ~r.stats.hasErrors) => r.emitted }

----------------------------------------------------------------------------
(* The build script: operations *)

IsPrefix(p, q) == Len(p) <= Len(q) /\ SubSeq(q, 1, Len(p)) = p

\* rimraf.sync(p)
rimraf(fs, p) ==
  FileSystem({d \in fs.dirs : ~IsPrefix(p, d)},
             [q \in {f \in DOMAIN fs.files : ~IsPrefix(p, f)} |-> fs.files[q]])

\* The build type is not validated.
ValidBuildTypeAny(buildType) == TRUE

\* VALID_BUILD_TYPES.includes(buildType)
ValidBuildType(buildType) == buildType \in VALID_BUILD_TYPES

InDir(a) == PathResolve(Cwd, a.inDir)

OutDir(a) ==
  IF a.lib THEN PathResolve(Cwd, a.outDir) \o <<a.buildType>>
  ELSE PathResolve(Cwd, a.outDir)

WebpackOutDir(a) ==
  IF a.lib THEN OutDir(a) ELSE OutDir(a) \o <<"web-public">>

\* The statements of the script in the order they run, were the file copy
\* placed before the start of the bundler and of the transpiler.
ScriptNextCopyFirst(at) ==
  CASE at = "start" -> "clean"
    [] at = "clean" -> "config"
    [] at = "config" -> "copy"
    [] at = "copy" -> "bundle"
    [] at = "bundle" -> "babel"
    [] at = "babel" -> "idle"

\* The statements of the script in the order they run, were the output
\* directory prepared after the Webpack config is loaded.
ScriptNextConfigFirst(at) ==
  CASE at = "start" -> "config"
    [] at = "config" -> "clean"
    [] at = "clean" -> "bundle"
    [] at = "bundle" -> "babel"
    [] at = "babel" -> "copy"
    [] at = "copy" -> "idle"

\* The statements of the script in the order they run.
ScriptNext(at) ==
  CASE at = "start" -> "clean"
    [] at = "clean" -> "config"
    [] at = "config" -> "bundle"
    [] at = "bundle" -> "babel"
    [] at = "babel" -> "copy"
    [] at = "copy" -> "idle"

\* The asset names of the first chunk group only.
ChunkGroupsFirstOnly(namedChunkGroups) ==
  [i \in 1..1 |->
     [ name |-> namedChunkGroups[i].name,
       assets |-> [j \in 1..Len(namedChunkGroups[i].assets) |->
                     namedChunkGroups[i].assets[j].name] ]]

\* mapValues(namedChunkGroups, (item) => item.assets.map(({ name }) => name))
ChunkGroups(namedChunkGroups) ==
  [i \in 1..Len(namedChunkGroups) |->
     [ name |-> namedChunkGroups[i].name,
       assets |-> [j \in 1..Len(namedChunkGroups[i].assets) |->
                     namedChunkGroups[i].assets[j].name] ]]

RECURSIVE JoinComma(_)
\* The token sequences, with a comma between two of them.
JoinComma(parts) ==
  IF parts = <<>> THEN <<>>
  ELSE IF Len(parts) = 1 THEN Head(parts)
  ELSE Head(parts) \o <<Punct(",")>> \o JoinComma(Tail(parts))

\* JSON.stringify(chunks, null, 2), the white space left out.
ManifestJson(chunks) ==
  <<Punct("{")>>
  \o JoinComma([i \in 1..Len(chunks) |->
       << <<"str", chunks[i].name>>, Punct(":"), Punct("[") >>
       \o JoinComma([j \in 1..Len(chunks[i].assets) |->
                       << <<"str", chunks[i].assets[j]>> >>])
       \o <<Punct("]")>>])
  \o <<Punct("}")>>

ManifestUrl(a) == WebpackOutDir(a) \o <<"__chunk_groups__.json">>

\* handleWebpackCompilationResults(error, stats) on the filesystem fs0.
handleWebpackCompilationResults(a, error, stats, fs0) ==
  LET production == a.buildType # BUILD_TYPES.DEVELOPMENT
      result(outcome, setsExitCode, fs) ==
        [outcome |-> outcome, setsExitCode |-> setsExitCode, fs |-> fs]
  IN IF error /\ production THEN result("returned early", TRUE, fs0)
     ELSE IF ~stats.present THEN result("threw", FALSE, fs0)
     ELSE IF stats.hasErrors /\ production
     THEN result("returned early", TRUE, fs0)
     ELSE IF writeThrows(fs0, ManifestUrl(a)) THEN result("threw", FALSE, fs0)
     ELSE result("finished", FALSE,
                 writeFile(fs0, ManifestUrl(a),
                           ManifestJson(ChunkGroups(stats.groups))))

\* The entries of a directory, as readdirSync(from, { withFileTypes: true })
\* lists them.
readdirSync(fs, from) ==
  LET present == {i \in 1..Len(EntryNames) :
                    existsSync(fs, from \o <<EntryNames[i]>>)}
      nth(k) == CHOOSE i \in present :
                  Cardinality({j \in present : j < i}) = k - 1
  IN [k \in 1..Cardinality(present) |->
        [ name |-> EntryNames[nth(k)],
          isDirectory |-> (from \o <<EntryNames[nth(k)]>>) \in fs.dirs,
          isFile |-> (from \o <<EntryNames[nth(k)]>>) \in DOMAIN fs.files ]]

RECURSIVE copyFromFolder(_, _, _, _)
RECURSIVE copyItems(_, _, _, _, _)

\* The forEach of copyFromFolder over the entries left to visit.
copyItems(items, from, to, regex, fs) ==
  IF items = <<>> THEN fs
  ELSE LET item == Head(items)
           after ==
             IF item.isDirectory
             THEN copyFromFolder(from \o <<item.name>>, to \o <<item.name>>,
                                 regex, fs)
             ELSE IF item.isFile /\ Matches(item.name, regex)
             THEN writeFile(mkdirRecursive(fs, to), to \o <<item.name>>,
                            fs.files[from \o <<item.name>>])
             ELSE fs
       IN copyItems(Tail(items), from, to, regex, after)

\* copyFromFolder(from, to, regex), had it created the destination directory
\* of every directory it visits.
copyFromFolderOfEveryFolder(from, to, regex, fs) ==
  copyItems(readdirSync(fs, from), from, to, regex, mkdirRecursive(fs, to))

\* copyFromFolder(from, to, regex)
copyFromFolder(from, to, regex, fs) ==
  copyItems(readdirSync(fs, from), from, to, regex, fs)

\* What a pass of the transpiler writes into the output directory.
BabelOutput(a, pass, fs) ==
  LET name == IF pass = "js" THEN "index.js" ELSE "icon.svg"
  IN writeFile(mkdirRecursive(fs, OutDir(a)), OutDir(a) \o <<name>>,
               << <<"compiled", name>> >>)

----------------------------------------------------------------------------
(* The build script specification *)

\* The transpiler run: the pass babelBuild() is at, whether the exec() it
\* awaits is still to resolve, the passes that ended with an error, and the
\* passes whose child process is alive.
BabelIdle ==
  [pass |-> "none", running |-> FALSE, failed |-> {}, children |-> {}]

\* await exec(command): the child process of a pass is started.
Exec(b, pass) ==
  [b EXCEPT !.pass = pass, !.running = TRUE, !.children = @ \cup {pass}]

\* babelBuild(), had exec() rejected for a child process that ended with an
\* error.
BabelResumesUnlessFailed(b) ==
  IF b.pass = "js" /\ "js" \notin b.failed THEN Exec(b, "svg")
  ELSE [b EXCEPT !.pass = "done"]

\* babelBuild() goes on after an await: exec() resolves whatever the child
\* process ended with, so the SVG pass follows the JS pass, and the end
\* follows the SVG pass.
BabelResumes(b) ==
  IF b.pass = "js" THEN Exec(b, "svg") ELSE [b EXCEPT !.pass = "done"]

CliInit ==
  /\ \E stale \in BOOLEAN :
       /\ dirs = SourceTree.dirs \cup (IF stale THEN StaleOutput.dirs ELSE {})
       /\ files = [p \in (DOMAIN SourceTree.files)
                          \cup (IF stale THEN DOMAIN StaleOutput.files ELSE {}) |->
                     IF p \in DOMAIN SourceTree.files THEN SourceTree.files[p]
                     ELSE StaleOutput.files[p]]
  /\ args \in CmdLineArgs
  /\ pc = "start"
  /\ exitCode = 0
  /\ webpackConfig = NoConfig
  /\ bundler = "idle"
  /\ compilation = NoCompilation
  /\ babel = BabelIdle
  /\ copied = FALSE
  /\ inputs = "none"
  /\ clock = 1
  /\ calls = 0
  /\ pending = {}
  /\ last = NoCall
  /\ emitted = JsUndefined
  /\ built = FALSE
  /\ UiIdle

\* The build type is validated: an invalid one throws.
Validate ==
  /\ pc = "start"
  /\ pc' = IF ValidBuildType(args.buildType) THEN ScriptNext(pc) ELSE "threw"
  /\ UNCHANGED <<uiVars, fsVars, factoryVars, args, exitCode, webpackConfig, bundler,
                 compilation, babel, copied>>

\* The output directory is removed and created again.
Clean ==
  /\ pc = "clean"
  /\ LET fs == mkdirRecursive(rimraf(FileSystem(dirs, files), OutDir(args)),
                              OutDir(args))
     IN dirs' = fs.dirs /\ files' = fs.files
  /\ pc' = ScriptNext(pc)
  /\ UNCHANGED <<uiVars, factoryVars, args, exitCode, webpackConfig, bundler,
                 compilation, babel, copied>>

\* The options a project's Webpack config module passes to configFactory:
\* the project directory or its build directory as the context, with or
\* without a sitemap.
ConfigModuleOps ==
  { [ops EXCEPT !.context = context] :
      ops \in { o \in FactoryOps({JsUndefined}, {Undefined, "sitemap.json"},
                                 {Undefined}) :
                  ~o.dontEmitBuildInfo /\ o.workbox = JsUndefined },
      context \in {Cwd, Cwd \o <<"build">>} }

\* What the module at --webpack-config exports: the config itself, a function
\* of the build type that returns it, or such a function that builds the
\* config by a call of configFactory.
ConfigModules ==
  [exports : {"object", "function"}, ops : {NoArgs}]
  \cup [exports : {"factory"}, ops : ConfigModuleOps]

\* The Webpack config is loaded (the module exports the config, or a function
\* of the build type that returns it), its output path is set, and the
\* compiler is created. An exception of the function ends the script.
LoadConfig ==
  /\ pc = "config"
  /\ \E module \in ConfigModules :
       IF module.exports = "factory"
       THEN LET r == configFactory(module.ops, FileSystem(dirs, files),
                                   CHOOSE k \in Keys : TRUE, clock)
            IN /\ dirs' = r.fs.dirs
               /\ files' = r.fs.files
               /\ pending' = IF r.scheduled
                             THEN pending \cup {[id |-> calls + 1,
                                                 outUrl |-> r.outUrl,
                                                 xml |-> r.xml]}
                             ELSE pending
               /\ calls' = calls + 1
               /\ clock' = clock + 1
               /\ webpackConfig' =
                    IF r.threw THEN webpackConfig
                    ELSE [ source |-> PathResolve(Cwd, args.webpackConfig),
                           calledWith |-> args.buildType,
                           output |-> [path |-> WebpackOutDir(args)] ]
               /\ pc' = IF r.threw THEN "threw" ELSE ScriptNext(pc)
       ELSE /\ webpackConfig' =
                 [ source |-> PathResolve(Cwd, args.webpackConfig),
                   calledWith |-> IF module.exports = "function"
                                  THEN args.buildType ELSE Undefined,
                   output |-> [path |-> WebpackOutDir(args)] ]
            /\ pc' = ScriptNext(pc)
            /\ UNCHANGED <<fsVars, pending, calls, clock>>
  /\ UNCHANGED <<uiVars, inputs, last, emitted, built, args, exitCode, bundler,
                 compilation, babel, copied>>

\* webpackCompiler.watch(...) or webpackCompiler.run(...) starts the bundler.
StartBundler ==
  /\ pc = "bundle"
  /\ bundler' = IF args.watch THEN "watching" ELSE "running"
  /\ pc' = ScriptNext(pc)
  /\ UNCHANGED <<uiVars, fsVars, factoryVars, args, exitCode, webpackConfig,
                 compilation, babel, copied>>

\* babelBuild() runs up to its first await: the JS pass is started.
StartBabel ==
  /\ pc = "babel"
  /\ babel' = Exec(babel, "js")
  /\ pc' = ScriptNext(pc)
  /\ UNCHANGED <<uiVars, fsVars, factoryVars, args, exitCode, webpackConfig, bundler,
                 compilation, copied>>

\* The files matching --copy-files are copied, when the option is given; the
\* synchronous part of the script ends.
CopyFiles ==
  /\ pc = "copy"
  /\ LET fs == IF args.copyFiles # Undefined /\ args.copyFiles # ""
               THEN copyFromFolder(InDir(args), OutDir(args), args.copyFiles,
                                   FileSystem(dirs, files))
               ELSE FileSystem(dirs, files)
     IN dirs' = fs.dirs /\ files' = fs.files
  /\ copied' = (args.copyFiles # Undefined /\ args.copyFiles # "")
  /\ pc' = ScriptNext(pc)
  /\ UNCHANGED <<uiVars, factoryVars, args, exitCode, webpackConfig, bundler,
                 compilation, babel>>

\* The bundler emits the assets of the chunk groups into its output
\* directory, which it creates.
EmitAssets(a, groups, fs) ==
  LET names == UNION { {groups[i].assets[j].name :
                          j \in 1..Len(groups[i].assets)} : i \in 1..Len(groups) }
      out == mkdirRecursive(fs, WebpackOutDir(a))
  IN [out EXCEPT !.files =
        [p \in (DOMAIN @) \cup {WebpackOutDir(a) \o <<n>> : n \in names} |->
           IF p \in DOMAIN @ /\ p \notin {WebpackOutDir(a) \o <<n>> : n \in names}
           THEN @[p] ELSE << <<"bundle", p[Len(p)]>> >>]]

\* A compilation ends and the bundler calls the handler with its results. An
\* exception of the handler is uncaught and ends the process.
HandleCompilation ==
  /\ pc = "idle"
  /\ bundler \in {"running", "watching"}
  /\ compilation.n < MaxCompilations
  /\ \E r \in CompilationResults(args.watch) :
       LET fs0 == IF r.emitted
                  THEN EmitAssets(args, r.stats.groups, FileSystem(dirs, files))
                  ELSE FileSystem(dirs, files)
           h == handleWebpackCompilationResults(args, r.error, r.stats, fs0)
       IN /\ dirs' = h.fs.dirs
          /\ files' = h.fs.files
          /\ exitCode' = IF h.setsExitCode THEN 1 ELSE exitCode
          /\ compilation' = [ n |-> compilation.n + 1, error |-> r.error,
                              stats |-> r.stats, emitted |-> r.emitted,
                              outcome |-> h.outcome,
                              setsExitCode |-> h.setsExitCode ]
          /\ pc' = IF h.outcome = "threw" THEN "crashed" ELSE pc
          /\ bundler' = IF args.watch THEN "watching" ELSE "closed"
  /\ UNCHANGED <<uiVars, factoryVars, args, webpackConfig, babel, copied>>

\* The child process of the running transpiler pass exits, with or without
\* an error; without one it has written its output.
BabelPassExits ==
  /\ \E pass \in babel.children, ok \in BOOLEAN :
       /\ LET fs == IF ok THEN BabelOutput(args, pass, FileSystem(dirs, files))
                    ELSE FileSystem(dirs, files)
          IN dirs' = fs.dirs /\ files' = fs.files
       /\ babel' = [babel EXCEPT !.running = IF pass = babel.pass THEN FALSE ELSE @,
                                 !.children = @ \ {pass},
                                 !.failed = IF ok THEN @ ELSE @ \cup {pass}]
  /\ UNCHANGED <<uiVars, factoryVars, args, pc, exitCode, webpackConfig, bundler,
                 compilation, copied>>

\* The promise of exec() resolves and babelBuild() goes on: the SVG pass is
\* started after the JS pass, and babelBuild() ends after the SVG pass.
BabelContinues ==
  /\ pc = "idle"
  /\ babel.pass \in {"js", "svg"}
  /\ ~babel.running
  /\ babel' = BabelResumes(babel)
  /\ UNCHANGED <<uiVars, fsVars, factoryVars, args, pc, exitCode, webpackConfig,
                 bundler, compilation, copied>>

\* The promise callback a configFactory call has scheduled runs, once the
\* synchronous part of the script has ended.
WriteSitemap ==
  /\ pc = "idle"
  /\ RunSitemapCallback

CliNext ==
  \/ Validate
  \/ Clean
  \/ LoadConfig
  \/ StartBundler
  \/ StartBabel
  \/ CopyFiles
  \/ HandleCompilation
  \/ BabelPassExits
  \/ BabelContinues
  \/ WriteSitemap

SpecCli == CliInit /\ [][CliNext]_vars

----------------------------------------------------------------------------
(* The copyFromFolder specification *)

\* The regular files a source tree may hold: matching and other files in the
\* folder itself, in a folder below it, and two levels below it.
CopyCandidates ==
  LET src == Cwd \o <<"src">>
  IN { src \o <<"data.json">>, src \o <<"index.js">>,
       src \o <<"assets", "logo.json">>, src \o <<"assets", "notes.txt">>,
       src \o <<"assets", "src", "data.json">> }

\* The folders a source tree may hold without a file in them.
CopyFolders ==
  LET src == Cwd \o <<"src">>
  IN { {}, {src \o <<"development">>}, {src \o <<"assets", "build">>} }

\* The finite directory trees copyFromFolder is called on, with the
\* destination present and empty or not created yet.
CopyTrees ==
  { FileSystem(
      {<<>>, Cwd, Cwd \o <<"src">>}
        \cup UNION {Prefixes(Parent(p)) : p \in present}
        \cup UNION {Prefixes(d) : d \in empty}
        \cup (IF made THEN {Cwd \o <<"build">>} ELSE {}),
      [p \in present |-> SourceFile(p[Len(p)])]) :
    present \in SUBSET CopyCandidates, empty \in CopyFolders,
    made \in BOOLEAN }

CopyInit ==
  /\ \E fs \in CopyTrees : dirs = fs.dirs /\ files = fs.files
  /\ args \in [ lib : {FALSE}, inDir : {"src"}, outDir : {"build"},
                buildType : {"production"}, watch : {FALSE},
                webpackConfig : {"webpack.config.js"},
                copyFiles : {"\\.json$", "^notes"} ]
  /\ pc = "none"
  /\ exitCode = 0
  /\ webpackConfig = NoConfig
  /\ bundler = "idle"
  /\ compilation = NoCompilation
  /\ babel = BabelIdle
  /\ copied = FALSE
  /\ inputs = "none"
  /\ clock = 1
  /\ calls = 0
  /\ pending = {}
  /\ last = NoCall
  /\ emitted = JsUndefined
  /\ built = FALSE
  /\ UiIdle

\* copyFromFolder(inDir, outDir, regex) is called.
CallCopyFromFolder ==
  /\ ~copied
  /\ LET fs == copyFromFolder(InDir(args), OutDir(args), args.copyFiles,
                              FileSystem(dirs, files))
     IN dirs' = fs.dirs /\ files' = fs.files
  /\ copied' = TRUE
  /\ UNCHANGED <<uiVars, factoryVars, args, pc, exitCode, webpackConfig, bundler,
                 compilation, babel>>

CopyNext == CallCopyFromFolder

SpecCopy == CopyInit /\ [][CopyNext]_vars

----------------------------------------------------------------------------
(* The Modal component *)

\* The Modal components a page mounts.
ModalIds == {"first", "second"}

\* props.onCancel when it is not given.
NoCallback == "<no callback>"

\* The functions a page passes as onCancel.
Callbacks == {"hideA", "hideB"}

\* The props of a Modal the model varies (an optional boolean that is not
\* given is FALSE).
ModalProps ==
  [ cancelOnScrolling : BOOLEAN,
    dontDisableScrolling : BOOLEAN,
    onCancel : Callbacks \cup {NoCallback} ]

\* S.scrollingDisabledByModal
ScrollingDisabledByModal == "scrollingDisabledByModal"

\* The elements of a rendered Modal an event can be raised on: the overlay,
\* the container (role=dialog) and the children rendered inside it.
Targets == {"overlay", "container", "children"}

\* The attributes the elements are rendered with.
Rendered ==
  [ overlay |-> [ariaLabel |-> "Cancel", role |-> "button"],
    container |-> [ariaLabel |-> "", role |-> "dialog"],
    children |-> [ariaLabel |-> "", role |-> ""],
    window |-> [ariaLabel |-> "", role |-> ""] ]

\* The events of the model.
Events ==
  { [type |-> "click", key |-> ""], [type |-> "wheel", key |-> ""],
    [type |-> "keydown", key |-> "Escape"],
    [type |-> "keydown", key |-> "Enter"] }

\* The setup of the cancellation on scrolling: window.addEventListener does
\* not register the same listener twice.
AddScrollListeners(ls, p) ==
  IF p.cancelOnScrolling /\ p.onCancel # NoCallback
  THEN ls \cup {<<"scroll", p.onCancel>>, <<"wheel", p.onCancel>>}
  ELSE ls

\* Its cleanup.
RemoveScrollListeners(ls, p) ==
  IF p.cancelOnScrolling /\ p.onCancel # NoCallback
  THEN ls \ {<<"scroll", p.onCancel>>, <<"wheel", p.onCancel>>}
  ELSE ls

\* The effect that disables window scrolling.
DisableScrolling(classes, p) ==
  IF ~p.dontDisableScrolling THEN classes \cup {ScrollingDisabledByModal}
  ELSE classes

\* Its cleanup.
EnableScrolling(classes, p) ==
  IF ~p.dontDisableScrolling THEN classes \ {ScrollingDisabledByModal}
  ELSE classes

\* The state portal before setPortal is called.
NoPortal == [present |-> FALSE]

Portal(element) == [present |-> TRUE, element |-> element]

\* document.createElement('div'): an element that is none of the children
\* of the body (elements are numbered).
CreateElement(children) ==
  CHOOSE n \in 0..Cardinality(children) :
    n \notin children /\ \A k \in 0..(n - 1) : k \in children

\* document.body.appendChild(p)
AppendChild(children, element) == children \cup {element}

\* A portal effect without a cleanup.
PortalCleanupNone(children, portal) == children

\* The cleanup of the portal effect: document.body.removeChild(p).
PortalCleanup(children, portal) == children \ {portal.element}

\* What BaseModal returns: null without a portal, else the content (focus
\* traps, overlay, container with the children) in the portal.
Render(portal) ==
  IF portal.present
  THEN [nothing |-> FALSE, into |-> portal.element, elements |-> Targets]
  ELSE [nothing |-> TRUE]

\* What a handler does with an event: the callbacks it invokes, and whether
\* it calls e.stopPropagation().
NoHandler == [calls |-> <<>>, stops |-> FALSE]

\* An overlay onClick that leaves the event to propagate.
OverlayOnClickPropagates(p) ==
  IF p.onCancel # NoCallback
  THEN [calls |-> <<p.onCancel>>, stops |-> FALSE]
  ELSE [calls |-> <<>>, stops |-> FALSE]

\* onClick of the overlay.
OverlayOnClick(p) ==
  IF p.onCancel # NoCallback
  THEN [calls |-> <<p.onCancel>>, stops |-> TRUE]
  ELSE [calls |-> <<>>, stops |-> FALSE]

\* An overlay onKeyDown that cancels on any key.
OverlayOnAnyKeyDown(p, key) ==
  IF p.onCancel # NoCallback
  THEN [calls |-> <<p.onCancel>>, stops |-> TRUE]
  ELSE [calls |-> <<>>, stops |-> FALSE]

\* onKeyDown of the overlay.
OverlayOnKeyDown(p, key) ==
  IF key = "Escape" /\ p.onCancel # NoCallback
  THEN [calls |-> <<p.onCancel>>, stops |-> TRUE]
  ELSE [calls |-> <<>>, stops |-> FALSE]

\* onClick of the container.
ContainerOnClick(p) == [calls |-> <<>>, stops |-> TRUE]

\* A container without onWheel.
ContainerOnWheelNone(p) == [calls |-> <<>>, stops |-> FALSE]

\* onWheel of the container.
ContainerOnWheel(p) == [calls |-> <<>>, stops |-> TRUE]

\* The handler the Modal with props p has on an element for an event.
Handler(p, element, e) ==
  CASE element = "overlay" /\ e.type = "click" -> OverlayOnClick(p)
    [] element = "overlay" /\ e.type = "keydown" -> OverlayOnKeyDown(p, e.key)
    [] element = "container" /\ e.type = "click" -> ContainerOnClick(p)
    [] element = "container" /\ e.type = "wheel" -> ContainerOnWheel(p)
    [] OTHER -> NoHandler

\* The elements of the Modal an event raised on target bubbles through, in
\* order: the overlay and the container are siblings, the children are inside
\* the container.
Path(target) ==
  CASE target = "overlay" -> <<"overlay">>
    [] target = "container" -> <<"container">>
    [] target = "children" -> <<"children", "container">>
    [] target = "window" -> <<>>

RECURSIVE Bubble(_, _, _)
\* The handlers along a path run until one stops the propagation.
Bubble(p, path, e) ==
  IF path = <<>> THEN NoHandler
  ELSE LET h == Handler(p, Head(path), e)
       IN IF h.stops THEN h
          ELSE LET rest == Bubble(p, Tail(path), e)
               IN [calls |-> h.calls \o rest.calls, stops |-> rest.stops]

Occurrences(seq, x) == Cardinality({i \in 1..Len(seq) : seq[i] = x})

\* An event e raised on an element of the Modal m: it bubbles through the
\* elements of the Modal; unless a handler stops it, it goes on to the
\* ancestors of the Modal and at last to window, whose listeners for the
\* event type run. calls counts the invocations of every callback.
Dispatch(ms, ls, m, target, e) ==
  LET p == ms[m].props
      r == Bubble(p, Path(target), e)
  IN [ type |-> e.type, key |-> e.key, modal |-> m, target |-> target,
       onCancel |-> p.onCancel,
       stopped |-> r.stops,
       reachedAncestors |-> ~r.stops,
       handled |-> [c \in Callbacks |-> Occurrences(r.calls, c)],
       calls |-> [c \in Callbacks |->
                    Occurrences(r.calls, c)
                    + (IF ~r.stops /\ <<e.type, c>> \in ls THEN 1 ELSE 0)] ]

\* The configFactory and the build script are not part of the
\* specifications of the components.
BuildIdle ==
  /\ dirs = {<<>>}
  /\ files = <<>>
  /\ inputs = "none"
  /\ clock = 1
  /\ calls = 0
  /\ pending = {}
  /\ last = NoCall
  /\ emitted = JsUndefined
  /\ built = FALSE
  /\ args = NoArgs
  /\ pc = "none"
  /\ exitCode = 0
  /\ webpackConfig = NoConfig
  /\ bundler = "idle"
  /\ compilation = NoCompilation
  /\ babel = BabelIdle
  /\ copied = FALSE

\* A page before any Modal is mounted.
ModalInit ==
  /\ BuildIdle
  /\ modals = [m \in ModalIds |-> NotMounted]
  /\ bodyClasses = {}
  /\ listeners = {}
  /\ bodyChildren = {}
  /\ event = NoEvent
  /\ video = NoVideo

\* A Modal is mounted: it renders without a portal, its effects run (the
\* first one creates the portal element, appends it to the body and sets the
\* state), and it renders again with the portal (React runs the effects of a
\* render before it handles a later event or render).
MountModal ==
  \E m \in ModalIds, p \in ModalProps :
    /\ ~modals[m].mounted
    /\ LET element == CreateElement(bodyChildren)
       IN /\ modals' = [modals EXCEPT ![m] =
                          [ mounted |-> TRUE, props |-> p,
                            portal |-> Portal(element),
                            firstRender |-> Render(NoPortal),
                            render |-> Render(Portal(element)) ]]
          /\ bodyChildren' = AppendChild(bodyChildren, element)
    /\ listeners' = AddScrollListeners(listeners, p)
    /\ bodyClasses' = DisableScrolling(bodyClasses, p)
    /\ UNCHANGED <<event, video, fsVars, factoryVars, cliVars>>

\* A Modal is unmounted: the cleanups of its effects run.
UnmountModal ==
  \E m \in ModalIds :
    /\ modals[m].mounted
    /\ modals' = [modals EXCEPT ![m] = NotMounted]
    /\ bodyChildren' = PortalCleanup(bodyChildren, modals[m].portal)
    /\ listeners' = RemoveScrollListeners(listeners, modals[m].props)
    /\ bodyClasses' = EnableScrolling(bodyClasses, modals[m].props)
    /\ UNCHANGED <<event, video, fsVars, factoryVars, cliVars>>

\* A mounted Modal is rendered with other props: an effect whose
\* dependencies have changed is cleaned up with the old props and run with
\* the new ones.
RerenderModal ==
  \E m \in ModalIds, p \in ModalProps :
    /\ modals[m].mounted
    /\ p # modals[m].props
    /\ LET old == modals[m].props
       IN /\ modals' = [modals EXCEPT ![m].props = p,
                                        ![m].render = Render(modals[m].portal)]
          /\ listeners' =
               IF <<p.cancelOnScrolling, p.onCancel>>
                    # <<old.cancelOnScrolling, old.onCancel>>
               THEN AddScrollListeners(RemoveScrollListeners(listeners, old), p)
               ELSE listeners
          /\ bodyClasses' =
               IF p.dontDisableScrolling # old.dontDisableScrolling
               THEN DisableScrolling(EnableScrolling(bodyClasses, old), p)
               ELSE bodyClasses
    /\ UNCHANGED <<bodyChildren, event, video, fsVars, factoryVars, cliVars>>

\* The user clicks, turns the wheel or presses a key on an element of a
\* mounted Modal. The callbacks are the page's; the model counts their
\* invocations.
DispatchEvent ==
  \E m \in ModalIds, target \in Targets, e \in Events :
    /\ modals[m].mounted
    /\ event' = Dispatch(modals, listeners, m, target, e)
    /\ UNCHANGED <<modals, bodyClasses, listeners, bodyChildren, video,
                   fsVars, factoryVars, cliVars>>

\* The page is scrolled: a scroll event is raised on window, whose scroll
\* listeners run.
ScrollPage ==
  /\ event' = [ type |-> "scroll", key |-> "", modal |-> "<none>",
                target |-> "window", onCancel |-> NoCallback,
                stopped |-> FALSE, reachedAncestors |-> FALSE,
                handled |-> [c \in Callbacks |-> 0],
                calls |-> [c \in Callbacks |->
                             IF <<"scroll", c>> \in listeners THEN 1 ELSE 0] ]
  /\ UNCHANGED <<modals, bodyClasses, listeners, bodyChildren, video,
                 fsVars, factoryVars, cliVars>>

ModalNext ==
  \/ MountModal
  \/ UnmountModal
  \/ RerenderModal
  \/ DispatchEvent
  \/ ScrollPage

SpecModal == ModalInit /\ [][ModalNext]_vars

----------------------------------------------------------------------------
(* The YouTubeVideo component *)

\* A URL is the sequence of its tokens: the separators "/", "?", "&" and "="
\* and the non-empty runs of other characters between them.
Separators == {"/", "?", "&", "="}

VideoIds == {"NdF6Rmt6Ado", "a-b_c"}

\* The runs the pattern [a-zA-Z0-9-_]* matches as a whole.
IsIdRun(w) == w \in VideoIds \cup {"watch", "embed"}

\* decodeURIComponent of a run, with "+" read as a space as qs does.
Decode(w) ==
  CASE w = "a+b" -> "a b"
    [] w = "a%20b" -> "a b"
    [] OTHER -> w

\* encodeURIComponent of a value.
Encode(w) ==
  CASE w = "a b" -> "a%20b"
    [] OTHER -> w

RECURSIVE Split(_, _)
\* s.split(sep)
Split(s, sep) ==
  IF \A i \in 1..Len(s) : s[i] # sep THEN <<s>>
  ELSE LET i == CHOOSE k \in 1..Len(s) :
                  s[k] = sep /\ \A j \in 1..(k - 1) : s[j] # sep
       IN <<SubSeq(s, 1, i - 1)>> \o Split(SubSeq(s, i + 1, Len(s)), sep)

RECURSIVE Concat(_)
\* The string of a sequence of tokens.
Concat(tokens) ==
  IF tokens = <<>> THEN "" ELSE Head(tokens) \o Concat(Tail(tokens))

\* A parsed query is the sequence of its parameters in insertion order,
\* [name, items]: a parameter named once has one item (a string), one
\* named several times has the items of an array.
HasParam(query, name) == \E i \in 1..Len(query) : query[i].name = name

ParamOf(query, name) ==
  query[CHOOSE i \in 1..Len(query) : query[i].name = name]

\* query[name] = items, in place when the object has the key.
SetParam(query, name, items) ==
  IF HasParam(query, name)
  THEN [i \in 1..Len(query) |->
          IF query[i].name = name THEN [name |-> name, items |-> items]
          ELSE query[i]]
  ELSE Append(query, [name |-> name, items |-> items])

\* delete query[name]
DeleteParam(query, name) == SelectSeq(query, LAMBDA q : q.name # name)

RECURSIVE ParseParts(_, _)
\* The parts name=value of a query string added to a query object: an empty
\* part is skipped, a part without "=" has the value '', a name met again
\* collects its values into an array.
ParseParts(parts, query) ==
  IF parts = <<>> THEN query
  ELSE LET part == Head(parts)
           name == Decode(part[1])
           value == Decode(Concat(SubSeq(part, 3, Len(part))))
           items == IF HasParam(query, name)
                    THEN Append(ParamOf(query, name).items, value)
                    ELSE <<value>>
       IN IF part = <<>> \/ part[1] = "=" THEN ParseParts(Tail(parts), query)
          ELSE ParseParts(Tail(parts), SetParam(query, name, items))

\* qs.parse(queryString)
qsParse(queryString) == ParseParts(Split(queryString, "&"), <<>>)

\* name=value, without a token for an empty value.
Pair(name, value) ==
  IF value = "" THEN <<name, "=">> ELSE <<name, "=", Encode(value)>>

RECURSIVE StringifyItems(_, _, _)
\* The items of an array, as name[0]=..&name[1]=.. with the brackets
\* percent-encoded.
StringifyItems(name, items, from) ==
  IF from > Len(items) THEN <<>>
  ELSE (IF from > 1 THEN <<"&">> ELSE <<>>)
       \o Pair(Encode(name) \o "%5B" \o ToString(from - 1) \o "%5D",
               items[from])
       \o StringifyItems(name, items, from + 1)

RECURSIVE qsStringify(_)
\* qs.stringify(query)
qsStringify(query) ==
  IF query = <<>> THEN <<>>
  ELSE LET q == Head(query)
           first == IF Len(q.items) = 1 THEN Pair(Encode(q.name), q.items[1])
                    ELSE StringifyItems(q.name, q.items, 1)
       IN IF Len(query) = 1 THEN first
          ELSE first \o <<"&">> \o qsStringify(Tail(query))

\* url.match(/\/([a-zA-Z0-9-_]*)$/)?.[1]: the run after the last "/" when
\* the URL ends with it, '' when the URL ends with "/".
LastRun(url) ==
  IF Len(url) >= 1 /\ url[Len(url)] = "/" THEN ""
  ELSE IF Len(url) >= 2 /\ url[Len(url) - 1] = "/" /\ IsIdRun(url[Len(url)])
  THEN url[Len(url)]
  ELSE Undefined

RECURSIVE JoinItems(_)
\* String(array)
JoinItems(items) ==
  IF Len(items) = 1 THEN items[1]
  ELSE items[1] \o "," \o JoinItems(Tail(items))

\* The video id taken from the path alone.
VideoIdOfPath(query, url) ==
  IF LastRun(url) = Undefined THEN "undefined" ELSE LastRun(url)

\* `${query.v || url.match(...)?.[1]}`
VideoId(query, url) ==
  IF HasParam(query, "v") /\ ParamOf(query, "v").items # <<"">>
  THEN JoinItems(ParamOf(query, "v").items)
  ELSE IF LastRun(url) = Undefined THEN "undefined"
  ELSE LastRun(url)

\* The src of the iframe YouTubeVideo renders for the props src, autoplay.
IframeSrc(src, autoplay) ==
  LET srcParts == Split(src, "?")
      queryString == IF Len(srcParts) >= 2 THEN srcParts[2] ELSE <<>>
      query == IF queryString # <<>> THEN qsParse(queryString) ELSE <<>>
      videoId == VideoId(query, srcParts[1])
      embed == <<"https:", "/", "/", "www.youtube.com", "/", "embed", "/">>
               \o (IF videoId = "" THEN <<>> ELSE <<videoId>>)
      final == SetParam(DeleteParam(query, "v"), "autoplay",
                        <<IF autoplay = "true" THEN "1" ELSE "0">>)
  IN embed \o <<"?">> \o qsStringify(final)

\* The query parameters a src has beside v.
ExtraQueries ==
  { <<>>,
    << <<"t", "=", "10">> >>,
    << <<"list", "=", "PL1">>, <<"t", "=", "10">> >>,
    << <<"autoplay", "=", "1">> >>,
    << <<"start", "=", "5">>, <<"autoplay", "=", "0">>, <<"rel", "=", "0">> >>,
    << <<"playlist", "=", "x1">>, <<"playlist", "=", "x2">> >>,
    << <<"q", "=", "a+b">> >>,
    << <<"mute">>, <<"cc_lang_pref", "=">> >> }

RECURSIVE JoinParams(_)
JoinParams(params) ==
  IF params = <<>> THEN <<>>
  ELSE IF Len(params) = 1 THEN params[1]
  ELSE params[1] \o <<"&">> \o JoinParams(Tail(params))

\* The videos of the model: the form of the URL, the id, the other
\* parameters, and for the watch form whether v comes first.
VideoInputs ==
  [ form : {"watch", "youtu.be", "embed"}, id : VideoIds,
    extra : ExtraQueries, vFirst : {TRUE} ]
  \cup [ form : {"watch"}, id : VideoIds, extra : ExtraQueries,
         vFirst : {FALSE} ]

\* The src of a video in one of the three accepted forms.
SourceUrl(in) ==
  LET v == <<"v", "=", in.id>>
      withQuery(url, params) ==
        IF params = <<>> THEN url ELSE url \o <<"?">> \o JoinParams(params)
  IN CASE in.form = "watch" ->
            withQuery(<<"https:", "/", "/", "www.youtube.com", "/", "watch">>,
                      IF in.vFirst THEN <<v>> \o in.extra
                      ELSE in.extra \o <<v>>)
       [] in.form = "youtu.be" ->
            withQuery(<<"https:", "/", "/", "youtu.be", "/", in.id>>, in.extra)
       [] in.form = "embed" ->
            withQuery(<<"https:", "/", "/", "www.youtube.com", "/", "embed",
                        "/", in.id>>, in.extra)

\* props.autoplay: true, false, or not given (defaultProps gives false).
AutoplayProps == {"true", "false", Undefined}

\* A page before any YouTubeVideo is rendered.
VideoInit ==
  /\ BuildIdle
  /\ modals = <<>>
  /\ bodyClasses = {}
  /\ listeners = {}
  /\ bodyChildren = {}
  /\ event = NoEvent
  /\ video = NoVideo

\* A YouTubeVideo is rendered.
RenderYouTubeVideo ==
  /\ \E in \in VideoInputs, autoplay \in AutoplayProps :
       video' = [ n |-> 1, input |-> in, src |-> SourceUrl(in),
                  autoplay |-> autoplay,
                  iframeSrc |->
                    IframeSrc(SourceUrl(in),
                              IF autoplay = Undefined THEN "false"
                              ELSE autoplay) ]
  /\ UNCHANGED <<modals, bodyClasses, listeners, bodyChildren, event,
                 fsVars, factoryVars, cliVars>>

VideoNext == RenderYouTubeVideo

SpecVideo == VideoInit /\ [][VideoNext]_vars

----------------------------------------------------------------------------
(* Properties of configFactory *)

IsCall == calls' # calls

IsCallback == calls' = calls /\ pending' # pending

\* The BUILD_INFO value the returned config defines for the bundle.
Defined(call) == call.config.plugins[1].define

WriteCount(log, p) ==
  Cardinality({i \in 1..Len(log) : log[i] = <<"writeFileSync", p>>})

ReadsDisk(log) ==
  \E i \in 1..Len(log) : log[i][1] \in {"existsSync", "readFileSync"}

IsSitemapFile(p) == Len(p) > 0 /\ p[Len(p)] = "sitemap.xml"

SitemapFilesUnchanged ==
  \A p \in (DOMAIN files) \cup (DOMAIN files') :
    IsSitemapFile(p) =>
      p \in DOMAIN files /\ p \in DOMAIN files' /\ files'[p] = files[p]

\* C1: a build info object given in keepBuildInfo is used as it is: the
\* invocation reads nothing from the disk and generates no key or timestamp,
\* and when it returns, the BUILD_INFO it defines, and the content of
\* .build-info when that is emitted, is the JSON of that object.
C1_GivenBuildInfoUsedAsIs ==
  (last # NoCall /\ last.ops.keepBuildInfo.kind = "object") =>
    /\ ~ReadsDisk(last.log)
    /\ ~last.generated
    /\ ~last.threw =>
         /\ last.buildInfo = last.ops.keepBuildInfo
         /\ Defined(last) = JSONstringify(last.ops.keepBuildInfo)
         /\ ~last.ops.dontEmitBuildInfo =>
              /\ BuildInfoUrl \in DOMAIN files
              /\ files[BuildInfoUrl] = JSONstringify(last.ops.keepBuildInfo)

\* A second invocation is given a build info object while an emitted
\* .build-info is on the disk, and emits.
C1_Witness ==
  /\ last # NoCall
  /\ last.n = 2
  /\ last.ops.keepBuildInfo = GivenBuildInfo
  /\ ~last.threw
  /\ ~last.ops.dontEmitBuildInfo
  /\ files[BuildInfoUrl] = JSONstringify(GivenBuildInfo)

\* C2: once an invocation has emitted .build-info, a later invocation with
\* keepBuildInfo === true generates nothing, does not fail to load the file,
\* leaves the content of .build-info as it was, and the config it returns
\* carries the build info of the earlier invocation (same key, publicPath,
\* timestamp, useServiceWorker).
C2_BuildInfoRoundTrip ==
  [][ (IsCall /\ emitted # JsUndefined /\ last'.ops.keepBuildInfo = JsTrue) =>
        /\ ~last'.generated
        /\ last'.error \notin {"EISDIR read", "SyntaxError"}
        /\ BuildInfoUrl \in DOMAIN files'
        /\ files'[BuildInfoUrl] = files[BuildInfoUrl]
        /\ ~last'.threw =>
             /\ last'.buildInfo = emitted
             /\ \A f \in {"key", "publicPath", "timestamp", "useServiceWorker"} :
                  Has(emitted.props, f) =>
                    Get(JSONparse(Defined(last')).value.props, f)
                      = Get(emitted.props, f)
     ]_vars

\* The second invocation has loaded the build info the first one generated
\* (its timestamp is the time of the first call) and has emitted it again.
C2_Witness ==
  /\ last # NoCall
  /\ last.n = 2
  /\ last.ops.keepBuildInfo = JsTrue
  /\ ~last.threw
  /\ ~last.ops.dontEmitBuildInfo
  /\ last.load = "loaded"
  /\ Get(last.buildInfo.props, "timestamp") = <<"s", ISOString(1)>>

\* C3: when keepBuildInfo === true and the load of .build-info fails (file
\* absent, unreadable, or not parsable), configFactory generates a build info
\* and returns a config.
C3_LoadFailureFallsBack ==
  (last # NoCall /\ last.load \in {"absent", "unreadable", "unparsable"}) =>
    ~last.threw /\ last.generated

\* C4 as amended: an invocation that returns a config with dontEmitBuildInfo
\* unset has written .build-info exactly once (it holds the JSON of the build
\* info used); an invocation that throws leaves the files as they were; an
\* invocation with dontEmitBuildInfo set writes nothing and creates no
\* directory; no invocation writes .build-info twice.
C4_EmitsOnceWhenReturning ==
  [][ IsCall =>
        LET w == WriteCount(last'.log, BuildInfoUrl)
        IN /\ w <= 1
           /\ (~last'.threw /\ ~last'.ops.dontEmitBuildInfo) =>
                /\ w = 1
                /\ BuildInfoUrl \in DOMAIN files'
                /\ files'[BuildInfoUrl] = Defined(last')
           /\ last'.threw => files' = files
           /\ last'.ops.dontEmitBuildInfo =>
                w = 0 /\ files' = files /\ dirs' = dirs
     ]_vars

\* The second invocation has loaded the build info from .build-info and has
\* written it back.
C4_Witness ==
  /\ last # NoCall
  /\ last.n = 2
  /\ last.load = "loaded"
  /\ ~last.threw
  /\ ~last.ops.dontEmitBuildInfo
  /\ WriteCount(last.log, BuildInfoUrl) = 1

\* C4 as stated: every invocation with dontEmitBuildInfo unset writes
\* .build-info exactly once, every invocation with it set never.
C4_EveryInvocationEmitsOnce ==
  last # NoCall =>
    IF last.ops.dontEmitBuildInfo
    THEN WriteCount(last.log, BuildInfoUrl) = 0
    ELSE WriteCount(last.log, BuildInfoUrl) = 1 /\ BuildInfoUrl \in DOMAIN files

\* C5: the sitemap write is not awaited: no invocation of configFactory
\* writes a sitemap.xml itself, and an invocation that set the write up
\* ends with the write pending.
C5_SitemapWriteNotAwaited ==
  [][ IsCall =>
        /\ SitemapFilesUnchanged
        /\ last'.scheduled <=> \E cb \in pending' \ pending : cb.id = last'.n
     ]_vars

\* The factory has returned and the build using its config has completed,
\* while the sitemap write is pending and sitemap.xml does not exist.
C5_Witness ==
  /\ last # NoCall
  /\ ~last.threw
  /\ last.scheduled
  /\ built
  /\ \E cb \in pending :
       cb.id = last.n /\ (cb.outUrl \o <<"sitemap.xml">>) \notin DOMAIN files

\* C6: without the sitemap option an invocation schedules no write and
\* creates neither sitemap.xml nor the output directory; with it, the
\* callback, once run, has written sitemap.xml into the output directory
\* (the output.path of the returned config), which it created when missing.
C6_SitemapWrittenIffConfigured ==
  [][ /\ (IsCall /\ last'.ops.sitemap = Undefined) =>
           /\ pending' = pending
           /\ SitemapFilesUnchanged
           /\ \A out \in {"build/web-public", "out"} :
                PathResolve(Context, out) \in dirs' => PathResolve(Context, out) \in dirs
      /\ (IsCall /\ last'.scheduled /\ ~last'.threw) =>
           \E cb \in pending' \ pending : cb.outUrl = last'.config.output.path
      /\ IsCallback =>
           \A cb \in pending \ pending' :
             /\ cb.outUrl \in dirs'
             /\ (cb.outUrl \o <<"sitemap.xml">>) \in DOMAIN files'
             /\ files'[cb.outUrl \o <<"sitemap.xml">>] = cb.xml
     ]_vars

----------------------------------------------------------------------------
(* Properties of the build script *)

IsStaleFile(p) == p \in DOMAIN files /\ files[p] = << <<"raw", "stale">> >>

\* C7: with a build type that is not 'development' or 'production' (a missing
\* one included) the only step the script takes is the throw of the
\* validation, which is its first step: the output directory is neither
\* cleaned nor created, the config is not loaded, and the bundler, the
\* transpiler and the file copy are not started.
C7_InvalidBuildTypeThrowsFirst ==
  [][ args.buildType \notin {"development", "production"} =>
        /\ pc = "start"
        /\ pc' = "threw"
        /\ UNCHANGED <<dirs, files, exitCode, webpackConfig, bundler,
                       compilation, babel, copied>>
     ]_vars

\* The script has thrown on a missing build type, and the files an earlier
\* build left in the output directory are still there.
C7_Witness ==
  /\ pc = "threw"
  /\ args.buildType = Undefined
  /\ IsStaleFile(Cwd \o <<"build", "old.js">>)
  /\ webpackConfig = NoConfig
  /\ bundler = "idle"

\* C8: a compilation error (a fatal error or stats.hasErrors()) sets the exit
\* code to non-zero exactly when the build type is not 'development'; in
\* development the handler finishes without throwing and leaves the exit code
\* unset.
C8_ErrorsFailTheBuildOutsideDevelopment ==
  (compilation # NoCompilation
     /\ (compilation.error \/ compilation.stats.hasErrors)) =>
    /\ (exitCode # 0) <=> (args.buildType # "development")
    /\ args.buildType = "development" => compilation.outcome # "threw"

\* C9: the file copy runs when the bundler and the transpiler have both been
\* started, and before either has completed: when the copy step ends the
\* bundler has not called the handler and the transpiler is still in its
\* first pass.
C9_CopyDoesNotWaitForCompletion ==
  [][ (pc = "copy" /\ pc' # pc) =>
        /\ bundler' \in {"running", "watching"}
        /\ compilation' = NoCompilation
        /\ babel'.pass = "js"
     ]_vars

\* The file copy has finished (a copied file is in the output directory)
\* while the bundler and the child process of the transpiler are running.
C9_Witness ==
  /\ copied
  /\ pc = "idle"
  /\ (OutDir(args) \o <<"assets", "logo.json">>) \in DOMAIN files
  /\ bundler = "running"
  /\ compilation = NoCompilation
  /\ babel.pass = "js"
  /\ babel.running

\* The indices of the token t in text, and the k-th of a set of indices.
IndicesOf(text, t) == {i \in 1..Len(text) : text[i] = t}

NthOf(indices, k) ==
  CHOOSE i \in indices : Cardinality({j \in indices : j < i}) = k - 1

IsStrToken(t) == t[1] = "str"

\* The groups a manifest text holds: the k-th is the name before the k-th
\* opening bracket with the strings up to the closing one.
ManifestEntries(text) ==
  [k \in 1..Cardinality(IndicesOf(text, Punct("["))) |->
     LET open == NthOf(IndicesOf(text, Punct("[")), k)
         close == NthOf(IndicesOf(text, Punct("]")), k)
         strs == SelectSeq(SubSeq(text, open + 1, close - 1), IsStrToken)
     IN [ name |-> text[open - 2][2],
          assets |-> [j \in 1..Len(strs) |-> strs[j][2]] ]]

ManifestUnchanged ==
  /\ ManifestUrl(args) \in DOMAIN files' <=> ManifestUrl(args) \in DOMAIN files
  /\ ManifestUrl(args) \in DOMAIN files =>
       files'[ManifestUrl(args)] = files[ManifestUrl(args)]

\* C10: a handler that runs to its end has written
\* <webpackOutDir>/__chunk_groups__.json, which holds one entry for every
\* named chunk group of the compilation, in their order, with the names of
\* the group's assets in their order; a handler that returns early (an error
\* in a non-development build) leaves the manifest as it was.
C10_ManifestOfNamedChunkGroups ==
  [][ compilation'.n # compilation.n =>
        /\ compilation'.outcome = "finished" =>
             /\ ManifestUrl(args) \in DOMAIN files'
             /\ LET groups == compilation'.stats.groups
                    m == ManifestEntries(files'[ManifestUrl(args)])
                IN /\ Len(m) = Len(groups)
                   /\ \A i \in 1..Len(groups) :
                        /\ m[i].name = groups[i].name
                        /\ Len(m[i].assets) = Len(groups[i].assets)
                        /\ \A j \in 1..Len(groups[i].assets) :
                             m[i].assets[j] = groups[i].assets[j].name
        /\ compilation'.outcome = "returned early" =>
             /\ ManifestUnchanged
             /\ args.buildType # "development"
             /\ compilation'.error \/ compilation'.stats.hasErrors
     ]_vars

\* A handler has run to its end for a compilation of two named chunk groups,
\* and the manifest is in the output directory of the bundler.
C10_Witness ==
  /\ compilation # NoCompilation
  /\ compilation.outcome = "finished"
  /\ Len(compilation.stats.groups) = 2
  /\ ManifestUrl(args) \in DOMAIN files
  /\ Len(ManifestEntries(files[ManifestUrl(args)])) = 2

----------------------------------------------------------------------------
(* Properties of the options of configFactory *)

Names(props) == {props[j][1] : j \in 1..Len(props)}

InjectManifests(call) ==
  {i \in 1..Len(call.config.plugins) :
     call.config.plugins[i].name = "InjectManifest"}

C12_EntryList ==
  (last # NoCall /\ ~last.threw) =>
    LET e == last.config.entry
        given == last.ops.entry
    IN /\ Len(e) >= 3
       /\ e[1] = "core-js/stable"
       /\ e[2] = "regenerator-runtime/runtime"
       /\ e[3] = "nodelist-foreach-polyfill"
       /\ given.isArray =>
            /\ Len(e) = 3 + Len(given.items)
            /\ \A i \in 1..Len(given.items) : e[3 + i] = given.items[i]
       /\ ~given.isArray =>
            /\ Len(e) = 4
            /\ e[4] = given.str

\* A config was returned for an array of three entry points, one of them
\* given twice.
C12_Witness ==
  /\ last # NoCall
  /\ ~last.threw
  /\ last.ops.entry.isArray
  /\ Len(last.ops.entry.items) = 3
  /\ Len(last.config.entry) = 6
  /\ last.config.entry[4] = last.config.entry[6]

\* The babel-loader options the factory sets itself.
FactoryBabelOptions(call) ==
  << <<"babelrc", "b", "false">>, <<"configFile", "b", "false">>,
     <<"envName", "s", call.ops.babelEnv>>,
     <<"presets", "s", "@dr.pogodin/react-utils/config/babel/webpack">> >>

\* C13: in a returned config cssLocalIdent, outputPath and publicPath are the
\* caller's values whenever the caller gave one (the empty string included)
\* and the defaults '[hash:base64:6]', 'build/web-public' and '' only when
\* the caller's value is undefined; the babel-loader options hold every
\* entry of the caller's babelLoaderOptions with the caller's value, and the
\* factory's own babelrc, configFile, envName and presets where the caller
\* gives no entry of that name.
C13_OptionDefaults ==
  (last # NoCall /\ ~last.threw) =>
    LET ops == last.ops
        c == last.config
        givenPath == IF ops.publicPath = Undefined THEN "" ELSE ops.publicPath
        given == IF ops.babelLoaderOptions = JsUndefined THEN <<>>
                 ELSE ops.babelLoaderOptions.props
        own == FactoryBabelOptions(last)
        opts == c.babelLoader.options
    IN /\ c.cssLocalIdentName =
            (IF ops.cssLocalIdent = Undefined THEN "[hash:base64:6]"
             ELSE ops.cssLocalIdent)
       /\ c.output.path =
            PathResolve(ops.context,
                        IF ops.outputPath = Undefined THEN "build/web-public"
                        ELSE ops.outputPath)
       /\ c.output.publicPath = givenPath \o "/"
       /\ last.generated =>
            Get(last.buildInfo.props, "publicPath") = <<"s", givenPath>>
       /\ Names(opts) = Names(given) \cup Names(own)
       /\ Len(opts) = Cardinality(Names(opts))
       /\ \A j \in 1..Len(given) :
            Get(opts, given[j][1]) = <<given[j][2], given[j][3]>>
       /\ \A j \in 1..Len(own) :
            ~Has(given, own[j][1]) =>
              Get(opts, own[j][1]) = <<own[j][2], own[j][3]>>

\* A config was returned for empty-string options and a babelLoaderOptions
\* object that sets envName: the empty strings and the caller's envName are
\* in the config.
C13_Witness ==
  /\ last # NoCall
  /\ ~last.threw
  /\ last.ops.cssLocalIdent = ""
  /\ last.ops.outputPath = ""
  /\ last.ops.babelLoaderOptions.kind = "object"
  /\ last.config.cssLocalIdentName = ""
  /\ last.config.output.path = Context
  /\ Get(last.config.babelLoader.options, "envName") = <<"s", "test">>
  /\ Get(last.config.babelLoader.options, "babelrc") = <<"b", "false">>

\* C14: when outputPath is omitted the output path is 'build': output.path
\* of the returned config, and the directory of the sitemap.xml the call has
\* scheduled, is <context>/build.
C14_DefaultOutputPathIsBuild ==
  (last # NoCall /\ ~last.threw /\ last.ops.outputPath = Undefined) =>
    /\ last.config.output.path = Context \o <<"build">>
    /\ \A cb \in pending :
         cb.id = last.n => cb.outUrl = Context \o <<"build">>

\* C15: configFactory does not modify the caller's options object: after
\* any invocation, one that throws included, every field of ops has the
\* value it had before the call.
C15_OpsNotModified ==
  last # NoCall => last.opsAfter = last.ops

\* A config with the InjectManifest plugin was returned for workbox: true
\* and omitted options, so that the factory has set defaults and replaced
\* workbox by {} on its own object; the caller's ops still has true and the
\* undefined values.
C15_Witness ==
  /\ last # NoCall
  /\ ~last.threw
  /\ last.ops.workbox = JsTrue
  /\ last.ops.outputPath = Undefined
  /\ last.ops.babelLoaderOptions = JsUndefined
  /\ InjectManifests(last) # {}
  /\ last.config.output.path = Context \o <<"build", "web-public">>
  /\ last.opsAfter.workbox = JsTrue
  /\ last.opsAfter.outputPath = Undefined

----------------------------------------------------------------------------
(* Properties of Modal *)

\* The event was raised on the element with aria-label=Cancel.
OnCancelOverlay == event # NoEvent /\ Rendered[event.target].ariaLabel = "Cancel"

\* The event was raised inside the element with role=dialog.
InsideDialog ==
  /\ event # NoEvent
  /\ \E i \in 1..Len(Path(event.target)) :
       Rendered[Path(event.target)[i]].role = "dialog"

NoCallbackInvoked == \A c \in Callbacks : event.calls[c] = 0

\* C16: a click on the overlay (the element rendered with aria-label=Cancel)
\* of a mounted Modal invokes onCancel exactly once, invokes no other
\* callback and is stopped from propagating, when onCancel is given; when
\* it is not given the click invokes nothing and propagates to the ancestors.
C16_OverlayClickCancels ==
  (OnCancelOverlay /\ event.type = "click") =>
    IF event.onCancel # NoCallback
    THEN /\ event.calls[event.onCancel] = 1
         /\ \A c \in Callbacks \ {event.onCancel} : event.calls[c] = 0
         /\ event.stopped
         /\ ~event.reachedAncestors
    ELSE /\ NoCallbackInvoked
         /\ ~event.stopped
         /\ event.reachedAncestors

\* The overlay of a Modal with onCancel was clicked while the other Modal,
\* with another onCancel that cancels it on scrolling, was mounted too.
C16_Witness ==
  /\ OnCancelOverlay
  /\ event.type = "click"
  /\ event.onCancel = "hideA"
  /\ event.calls["hideA"] = 1
  /\ event.stopped
  /\ \A m \in ModalIds : modals[m].mounted
  /\ <<"wheel", "hideB">> \in listeners

\* C17: Escape pressed on the overlay of a Modal with onCancel invokes
\* onCancel exactly once; a key-down of another key, on the overlay or
\* inside the Modal, invokes no onCancel.
C17_EscapeCancels ==
  (event # NoEvent /\ event.type = "keydown") =>
    /\ (OnCancelOverlay /\ event.key = "Escape"
          /\ event.onCancel # NoCallback) =>
         event.calls[event.onCancel] = 1
    /\ event.key # "Escape" => NoCallbackInvoked

\* Escape was pressed on the overlay of a Modal with onCancel, and onCancel
\* was invoked.
C17_Witness ==
  /\ OnCancelOverlay
  /\ event.type = "keydown"
  /\ event.key = "Escape"
  /\ event.onCancel = "hideB"
  /\ event.calls["hideB"] = 1
  /\ event.calls["hideA"] = 0

\* C18: a wheel or click event raised inside the container (role=dialog) of
\* a Modal is stopped from propagating to the ancestors of the Modal, and
\* no callback is invoked for it, neither by a handler of the Modal nor by
\* a listener the Modal has put on window.
C18_ContainerStopsPropagation ==
  (InsideDialog /\ event.type \in {"wheel", "click"}) =>
    /\ event.stopped
    /\ ~event.reachedAncestors
    /\ NoCallbackInvoked

\* The wheel was turned on the children of a Modal that cancels on
\* scrolling, while its listener was on window: the event was stopped.
C18_Witness ==
  /\ InsideDialog
  /\ event.type = "wheel"
  /\ event.target = "children"
  /\ event.stopped
  /\ modals[event.modal].mounted
  /\ modals[event.modal].props.cancelOnScrolling
  /\ modals[event.modal].props.onCancel = event.onCancel
  /\ <<"wheel", event.onCancel>> \in listeners

\* C20: document.body carries the scrolling-disabled class exactly when at
\* least one Modal with dontDisableScrolling unset is mounted.
C20_ScrollingDisabledWhileModal ==
  (ScrollingDisabledByModal \in bodyClasses)
    <=> (\E m \in ModalIds :
           modals[m].mounted /\ ~modals[m].props.dontDisableScrolling)

----------------------------------------------------------------------------
(* Properties of YouTubeVideo *)

\* The parameters name=value of a query, as written.
WrittenParams(queryString) ==
  LET parts == SelectSeq(Split(queryString, "&"), LAMBDA part : part # <<>>)
  IN [i \in 1..Len(parts) |->
        <<parts[i][1], Concat(SubSeq(parts[i], 3, Len(parts[i])))>>]

TimesWritten(params, name) ==
  Cardinality({i \in 1..Len(params) : params[i][1] = name})

----------------------------------------------------------------------------
(* Properties of the effects of Modal *)

\* The Modal m is mounted with cancelOnScrolling and onCancel both set.
CancelsOnScrolling(ms, m) ==
  /\ ms[m].mounted
  /\ ms[m].props.cancelOnScrolling
  /\ ms[m].props.onCancel # NoCallback

\* C21: after every mount, prop change and unmount, window has the scroll
\* and the wheel listener of every Modal that is mounted with
\* cancelOnScrolling and onCancel both set, which is its current onCancel,
\* and no other listener; and a scroll of the page invokes the onCancel of
\* those Modals and no other callback (none of an unmounted Modal, none
\* that was replaced).
C21_ScrollListenersFollowProps ==
  [][ /\ \A m \in ModalIds :
           CancelsOnScrolling(modals', m) =>
             /\ <<"scroll", modals'[m].props.onCancel>> \in listeners'
             /\ <<"wheel", modals'[m].props.onCancel>> \in listeners'
      /\ \A l \in listeners' :
           /\ l[1] \in {"scroll", "wheel"}
           /\ \E m \in ModalIds :
                CancelsOnScrolling(modals', m) /\ modals'[m].props.onCancel = l[2]
      /\ (event' # event /\ event'.type = "scroll") =>
           \A c \in Callbacks :
             (event'.calls[c] > 0)
               <=> (\E m \in ModalIds :
                      CancelsOnScrolling(modals, m) /\ modals[m].props.onCancel = c)
    ]_vars

Mounted == {m \in ModalIds : modals[m].mounted}

\* C22: every mounted Modal has one portal element of its own among the
\* children of the body; what it rendered before the portal existed is
\* nothing, and what it renders since is in its own portal; the portal
\* elements in the body are those of the mounted Modals, as many as there
\* are mounted Modals.
C22_OnePortalPerModal ==
  /\ \A m \in Mounted :
       /\ modals[m].portal.present
       /\ modals[m].portal.element \in bodyChildren
       /\ modals[m].firstRender.nothing
       /\ ~modals[m].render.nothing
       /\ modals[m].render.into = modals[m].portal.element
       /\ \A other \in Mounted \ {m} :
            modals[other].portal.element # modals[m].portal.element
  /\ bodyChildren = {modals[m].portal.element : m \in Mounted}
  /\ Cardinality(bodyChildren) = Cardinality(Mounted)

\* One Modal is mounted in the portal numbered 1, which it got while another
\* Modal, unmounted since, had the portal 0: the body has that one portal.
C22_Witness ==
  /\ Cardinality(Mounted) = 1
  /\ bodyChildren = {1}
  /\ \A m \in Mounted : modals[m].render.into = 1

----------------------------------------------------------------------------
(* Properties of the steps of the build script *)

\* C23: the transpiler runs its two passes one after the other: at most one
\* child process is alive; the JS/JSX pass is started first; the SVG pass is
\* started only when the JS/JSX pass has completed; and when babelBuild()
\* goes on after the JS/JSX pass it starts the SVG pass, also when the
\* JS/JSX pass ended with an error.
C23_TwoBabelPassesInOrder ==
  [][ /\ Cardinality(babel'.children) <= 1
      /\ ("js" \in babel'.children /\ "js" \notin babel.children) =>
           babel.pass = "none"
      /\ ("svg" \in babel'.children /\ "svg" \notin babel.children) =>
           /\ babel.pass = "js"
           /\ ~babel.running
           /\ "js" \notin babel.children
      /\ (babel.pass = "js" /\ babel'.pass # "js") =>
           /\ babel'.pass = "svg"
           /\ "svg" \in babel'.children
    ]_vars

\* The SVG pass runs after a JS/JSX pass that ended with an error.
C23_Witness ==
  /\ babel.pass = "svg"
  /\ babel.children = {"svg"}
  /\ "js" \in babel.failed


\* The steps of the script that write into the project have not begun: no
\* config is loaded, no configFactory call was made and none of its callbacks
\* is pending, the bundler and the transpiler are not started, nothing has
\* been copied.
NothingStarted ==
  /\ webpackConfig = NoConfig
  /\ calls = 0
  /\ pending = {}
  /\ bundler = "idle"
  /\ compilation = NoCompilation
  /\ babel = BabelIdle
  /\ ~copied

IsCleanStep == pc = "clean" /\ pc' # pc

\* C24: the output directory is removed and created again before the Webpack
\* config is loaded and before the bundler, the transpiler or the file copy
\* starts: the clean step runs when none of them has begun and leaves the
\* output directory present and empty, and no other step of the run (the
\* sitemap callback and the build info of a configFactory call made while the
\* config is loaded included) removes a file, so that what they write is
\* never deleted.
C24_CleanBeforeEveryWriter ==
  [][ /\ IsCleanStep =>
           /\ NothingStarted
           /\ OutDir(args) \in dirs'
           /\ \A p \in DOMAIN files' : ~IsPrefix(OutDir(args), p)
      /\ ~IsCleanStep => \A p \in DOMAIN files : p \in DOMAIN files'
      /\ ~NothingStarted => ~NothingStarted' ]_vars

\* The run of an application build over the output of an earlier one has
\* ended, with the build info and the sitemap of a configFactory call, the
\* assets of the bundler, the output of the transpiler and the copied files
\* in the output directory, and none of the stale files.
C24_Witness ==
  /\ pc = "idle"
  /\ ~args.lib
  /\ calls = 1 /\ pending = {}
  /\ compilation.n > 0
  /\ babel.pass = "done"
  /\ copied
  /\ { Cwd \o <<".build-info">>,
       OutDir(args) \o <<"index.js">>,
       OutDir(args) \o <<"data.json">>,
       ManifestUrl(args) } \subseteq DOMAIN files
  /\ \E p \in DOMAIN files : IsSitemapFile(p) /\ IsPrefix(OutDir(args), p)
  /\ \A p \in DOMAIN files : ~IsStaleFile(p)

----------------------------------------------------------------------------
(* Properties of copyFromFolder *)

\* The regular files below the folder from whose base name matches.
MatchingFiles(from, regex) ==
  {p \in DOMAIN files : IsPrefix(from, p) /\ Matches(p[Len(p)], regex)}

\* The path below the folder to that is relative to it as p is to from.
Relocated(p, from, to) == to \o SubSeq(p, Len(from) + 1, Len(p))

\* The call copies exactly the matching files, each to the same relative
\* path and with its content, and leaves every other file as it is.
CopiesExactlyTheMatching ==
  LET from == InDir(args)
      to == OutDir(args)
      matching == MatchingFiles(from, args.copyFiles)
  IN /\ DOMAIN files' = DOMAIN files \cup {Relocated(p, from, to) : p \in matching}
     /\ \A p \in matching : files'[Relocated(p, from, to)] = files[p]
     /\ \A p \in DOMAIN files : files'[p] = files[p]
     /\ dirs \subseteq dirs'

\* C25 as stated: the call copies exactly the matching files, and a
\* destination directory is created only for a source directory that directly
\* contains a matching file.
C25_CopiesMatchingFilesOnly ==
  [][ CallCopyFromFolder =>
        /\ CopiesExactlyTheMatching
        /\ \A d \in dirs' \ dirs :
             \E p \in MatchingFiles(InDir(args), args.copyFiles) :
               d = Relocated(Parent(p), InDir(args), OutDir(args)) ]_vars

\* C25, amended: the call copies exactly the matching files, and the
\* destination directories created are those of the source directories that
\* contain a matching file directly or in a folder below them (the
\* destination of a folder cannot exist without the ones above it).
C25_CopiesMatchingFilesAndTheirFolders ==
  [][ CallCopyFromFolder =>
        /\ CopiesExactlyTheMatching
        /\ dirs' \ dirs =
             { d \in UNION { Prefixes(Relocated(Parent(p), InDir(args),
                                                 OutDir(args))) :
                               p \in MatchingFiles(InDir(args), args.copyFiles) } :
                 d \notin dirs } ]_vars

\* The call has copied a matching file two folders below the source into a
\* destination that did not exist, past a folder between them that holds
\* only a file that does not match, and past a folder without files.
C25_Witness ==
  LET src == Cwd \o <<"src">>
      out == Cwd \o <<"build">>
  IN /\ copied
     /\ pc = "none"
     /\ args.copyFiles = "\\.json$"
     /\ DOMAIN files = { src \o <<"assets", "notes.txt">>,
                         src \o <<"assets", "src", "data.json">>,
                         out \o <<"assets", "src", "data.json">> }
     /\ src \o <<"development">> \in dirs
     /\ out \o <<"assets">> \in dirs
     /\ out \o <<"development">> \notin dirs

----------------------------------------------------------------------------
(* Properties of the failures of the sitemap *)

\* The sitemap source of the options cannot be loaded, or is no list.
SitemapSourceFails(ops) ==
  /\ ops.sitemap \notin {Undefined, ""}
  /\ LET source == Require(PathResolve(ops.context, ops.sitemap))
     IN ~source.found \/ source.value \notin {"list", "function"}

\* .build-info is after the step what it was before it.
BuildInfoFileUnchanged ==
  /\ BuildInfoUrl \in dirs' <=> BuildInfoUrl \in dirs
  /\ BuildInfoUrl \in DOMAIN files' <=> BuildInfoUrl \in DOMAIN files
  /\ BuildInfoUrl \in DOMAIN files => files'[BuildInfoUrl] = files[BuildInfoUrl]

\* The callback that ran in the step has not written its sitemap.xml.
SitemapWriteFailed ==
  /\ IsCallback
  /\ \E cb \in pending \ pending' :
       \/ (cb.outUrl \o <<"sitemap.xml">>) \notin DOMAIN files'
       \/ files'[cb.outUrl \o <<"sitemap.xml">>] # cb.xml

\* C26: an invocation whose sitemap source is missing or is no list throws
\* before the build info step: no config is returned, no filesystem call for
\* .build-info is made, the file and the directories are left as they were
\* and no write is scheduled; a sitemap.xml write that fails later changes
\* neither the config that was returned nor the .build-info that was written.
C26_SitemapFailures ==
  [][ /\ (IsCall /\ SitemapSourceFails(last'.ops)) =>
           /\ last'.threw
           /\ last'.config = NoConfig
           /\ last'.log = <<>>
           /\ BuildInfoFileUnchanged
           /\ dirs' = dirs /\ files' = files
           /\ pending' = pending
           /\ emitted' = emitted
      /\ SitemapWriteFailed =>
           /\ last' = last
           /\ emitted' = emitted
           /\ BuildInfoFileUnchanged
           /\ dirs' = dirs /\ files' = files ]_vars

\* A second invocation has thrown for a sitemap source that is no list, after
\* a first one had written .build-info, which is still as the first one wrote
\* it, and no sitemap.xml was written: the output directory could not be
\* created.
C26_Witness ==
  /\ last # NoCall
  /\ last.n = 2
  /\ last.threw
  /\ last.error = "TypeError"
  /\ ~last.ops.dontEmitBuildInfo
  /\ pending = {}
  /\ emitted # JsUndefined
  /\ BuildInfoUrl \in DOMAIN files
  /\ files[BuildInfoUrl] = JSONstringify(emitted)
  /\ \A p \in DOMAIN files : ~IsSitemapFile(p)

====
